---- MODULE Spec2Model ----
(***************************************************************************)
(* A model of the fancy-nes emulation core: the 6502 CPU interpreter       *)
(* (fancy-nes-core/src/cpu.rs), its memory bus (cpu/mem.rs), the NROM      *)
(* mapper (cpu/mapper000.rs), the PPU (ppu.rs) and the host coordinator    *)
(* loop (nes-platform/src/main.rs).                                        *)
(*                                                                         *)
(* The machine is the record m = [cpu, mem, ppu, joy1_in, dbg, res]:       *)
(*   cpu      NESCpu's registers and interpreter state                     *)
(*   mem      CPUMemory (internal RAM, I/O registers, mapper PRG ROM/RAM)  *)
(*   ppu      NESPpu's registers, OAM and dot/scanline position            *)
(*   joy1_in  the host-owned controller bitmap shared with the CPU bus     *)
(*   dbg      the build profile: TRUE when debug_assertions are on, so     *)
(*            that integer overflow aborts instead of wrapping             *)
(*   res      what the running call has produced so far: "Ok", "Err" (a    *)
(*            Result::Err travelling up through `?`) or "Panic" (abort)    *)
(* Every operator that models code takes m and gives the m after the code  *)
(* ran; once res is not "Ok" the remaining statements are skipped, as the  *)
(* early return or the unwinding does in the source.                       *)
(*                                                                         *)
(* Arrays that start zeroed (RAM, OAM, PRG RAM) and the PRG ROM image are  *)
(* kept sparse: a function over the indices that hold a non-zero byte.     *)
(***************************************************************************)
EXTENDS Naturals, Integers, Sequences, FiniteSets, TLC

VARIABLES cpu, mem, ppu, joy1_in, dbg, res, host, obs

vars == <<cpu, mem, ppu, joy1_in, dbg, res, host, obs>>

(***************************************************************************)
(* Fixed-width integer helpers.                                            *)
(***************************************************************************)
Byte == 0..255

Pow2(n) == 2^n

\* bit n of v, as 0 or 1
Bit(v, n) == (v \div Pow2(n)) % 2

\* v with bit n forced to b (bitflags' set/insert/remove on one flag)
SetBit(v, n, b) == v - Bit(v, n) * Pow2(n) + b * Pow2(n)

B2N(b) == IF b THEN 1 ELSE 0

RECURSIVE BitAndN(_, _, _)
BitAndN(a, b, n) ==
    IF n = 0 THEN 0
    ELSE (a % 2) * (b % 2) + 2 * BitAndN(a \div 2, b \div 2, n - 1)

\* a & b on 16-bit operands
BitAnd(a, b) == BitAndN(a, b, 16)

RECURSIVE BitOrN(_, _, _)
BitOrN(a, b, n) ==
    IF n = 0 THEN 0
    ELSE (IF a % 2 = 1 \/ b % 2 = 1 THEN 1 ELSE 0) + 2 * BitOrN(a \div 2, b \div 2, n - 1)

\* a | b on 16-bit operands
BitOr(a, b) == BitOrN(a, b, 16)

RECURSIVE BitXorN(_, _, _)
BitXorN(a, b, n) ==
    IF n = 0 THEN 0
    ELSE ((a + b) % 2) + 2 * BitXorN(a \div 2, b \div 2, n - 1)

\* a ^ b on 16-bit operands
BitXor(a, b) == BitXorN(a, b, 16)

\* sparse array read: the cells not in the domain hold 0
Get(f, i) == IF i \in DOMAIN f THEN f[i] ELSE 0

\* sparse array write, keeping the representation canonical
Put(f, i, v) ==
    IF v = 0 THEN [j \in (DOMAIN f) \ {i} |-> f[j]]
    ELSE [j \in (DOMAIN f) \cup {i} |-> IF j = i THEN v ELSE f[j]]

EmptyArr == [j \in {} |-> 0]

(***************************************************************************)
(* Outcome plumbing.                                                       *)
(***************************************************************************)
Running(m) == m.res = "Ok"

\* a `let`: the value v, computed once, handed to what follows
Bind(v, F(_)) == F(v)

Panic(m) == IF Running(m) THEN [m EXCEPT !.res = "Panic"] ELSE m

Fail(m) == IF Running(m) THEN [m EXCEPT !.res = "Err"] ELSE m

\* u8/u16 `x += k` : aborts on overflow in a debug build, wraps in release
Ovf(m, sum, width) == m.dbg /\ sum >= Pow2(width)

\* u8/u16 `x -= k` : aborts on underflow in a debug build, wraps in release
Unf(m, a, k) == m.dbg /\ a < k

\* the wrapped difference a - k of width w
WrapSub(a, k, w) == (a + Pow2(w) - k) % Pow2(w)

(***************************************************************************)
(* StatusRegister (cpu.rs:30-41): the flag's bit numbers.                  *)
(***************************************************************************)
CARRY == 0
ZERO == 1
INTERRUPT_DISABLE == 2
DECIMAL_MODE == 3
BREAK_LOW == 4
BREAK_HIGH == 5
OVERFLOW == 6
NEGATIVE == 7

\* PPUCTRL / PPUMASK / PPUSTATUS bit numbers (ppu.rs:30-64)
VRAM_INCREMENT == 2
NMI_ENABLED == 7
GREYSCALE == 0
BACKGROUND == 3
SPRITES == 4
SPRITE_OVERFLOW == 5
SPRITE_ZERO_HIT == 6
VBLANK == 7

(***************************************************************************)
(* CPUMapper000 (cpu/mapper000.rs:25-64): NROM's CPU-side window.          *)
(* mem.prg_rom is the loaded image (sparse), mem.prg_size its capacity.    *)
(***************************************************************************)
PRG_16K == 16384

\* a read that mirrors nothing: $C000..$FFFF is always the upper half
CPUMapper000_read_nomirror(m, addr) ==
    IF addr >= 24576 /\ addr <= 32767 THEN Get(m.mem.prg_ram, addr - 24576)
    ELSE IF addr >= 32768 /\ addr <= 65535 THEN Get(m.mem.prg_rom, addr - 32768)
    ELSE 0

CPUMapper000_read(m, addr) ==
    IF addr >= 24576 /\ addr <= 32767 THEN Get(m.mem.prg_ram, addr - 24576)
    ELSE IF addr >= 32768 /\ addr <= 49151 THEN Get(m.mem.prg_rom, addr - 32768)
    ELSE IF addr >= 49152 /\ addr <= 65535 THEN
        IF m.mem.prg_size = PRG_16K THEN Get(m.mem.prg_rom, addr - 49152)
        ELSE Get(m.mem.prg_rom, addr - 32768)
    ELSE 0

CPUMapper000_write(m, addr, data) ==
    IF addr >= 24576 /\ addr <= 32767
    THEN [m EXCEPT !.mem.prg_ram = Put(@, addr - 24576, data)]
    ELSE m

(***************************************************************************)
(* PPUMapper000 (cpu/mapper000.rs:66-121): the PPU-side window.  The       *)
(* result is [kind, word]: kind "Word" carries the tagged word (bit 12 set *)
(* means "index into PPU RAM"), "Unreachable" is an unreachable!() arm and *)
(* "Err" the Err(..) arm of write.                                         *)
(***************************************************************************)
Word(w) == [kind |-> "Word", word |-> w]

\* the two mirrorings exchanged
NameTableWord_swapped(mirroring, addr) ==
    LET a1 == IF mirroring = "Vertical"
              THEN LET a0 == addr - Bit(addr, 10) * 1024
                   IN IF Bit(a0, 11) = 1 THEN a0 - 1024 ELSE a0
              ELSE addr - Bit(addr, 11) * 2048
    IN 4096 + (a1 - 8192)

NameTableWord(mirroring, addr) ==
    LET a1 == IF mirroring = "Horizontal"
              THEN LET a0 == addr - Bit(addr, 10) * 1024
                   IN IF Bit(a0, 11) = 1 THEN a0 - 1024 ELSE a0
              ELSE addr - Bit(addr, 11) * 2048
    IN 4096 + (a1 - 8192)

PPUMapper000_read(m, addr) ==
    IF addr <= 8191 THEN Word(Get(m.ppu.chr_rom, addr))
    ELSE IF addr <= 12287 THEN
        IF m.ppu.mirroring \in {"Horizontal", "Vertical"}
        THEN Word(NameTableWord(m.ppu.mirroring, addr))
        ELSE [kind |-> "Unreachable", word |-> 0]
    ELSE IF addr <= 16127 THEN Word(0)
    ELSE [kind |-> "Unreachable", word |-> 0]

\* the Result of write; the store into CHR is done by ppu_write
PPUMapper000_write(m, addr) ==
    IF addr <= 8191 THEN Word(0)
    ELSE IF addr <= 12287 THEN
        IF m.ppu.mirroring \in {"Horizontal", "Vertical"}
        THEN Word(NameTableWord(m.ppu.mirroring, addr))
        ELSE [kind |-> "Unreachable", word |-> 0]
    ELSE IF addr <= 16127 THEN Word(0)
    ELSE [kind |-> "Err", word |-> 0]

(***************************************************************************)
(* NESPpu::read / NESPpu::write (ppu.rs:236-279): the PPU's own bus.       *)
(* ppu_read gives [ok, v]: ok is FALSE when the read aborts.               *)
(***************************************************************************)
PaletteMask(m) == IF Bit(m.ppu.ppu_mask, GREYSCALE) = 1 THEN 48 ELSE 63

ppu_read(m, addr) ==
    IF addr <= 16127 THEN
        LET r == PPUMapper000_read(m, addr)
        IN IF r.kind # "Word" THEN [ok |-> FALSE, v |-> 0]
           ELSE IF Bit(r.word, 12) = 1 THEN [ok |-> TRUE, v |-> Get(m.ppu.vram, r.word % 4096)]
           ELSE [ok |-> TRUE, v |-> r.word % 256]
    ELSE IF addr <= 16383 THEN
        LET a == IF addr \in {16144, 16148, 16152, 16156} THEN addr - 16 ELSE addr
        IN [ok |-> TRUE, v |-> BitAnd(m.ppu.palette[a % 32], PaletteMask(m))]
    ELSE [ok |-> FALSE, v |-> 0]

ppu_write(m, addr, data) ==
    IF ~Running(m) THEN m
    ELSE IF addr <= 16127 THEN
        LET r == PPUMapper000_write(m, addr)
        IN IF r.kind # "Word" THEN Panic(m)
           ELSE IF addr <= 8191 THEN [m EXCEPT !.ppu.chr_rom = Put(@, addr, data)]
           ELSE IF Bit(r.word, 12) = 1 THEN [m EXCEPT !.ppu.vram = Put(@, r.word % 4096, data)]
           ELSE m
    ELSE IF addr <= 16383 THEN [m EXCEPT !.ppu.palette[addr % 32] = data]
    ELSE Panic(m)

tile_attr_from_vram_addr(addr) ==
    <<8192 + (addr % 4096),
      9152 + Bit(addr, 11) * 2048 + Bit(addr, 10) * 1024
           + ((addr \div 128) % 8) * 8 + ((addr \div 4) % 8)>>

(***************************************************************************)
(* The CPU-facing PPU registers (ppu.rs:288-369).                          *)
(***************************************************************************)
VramIncrement(m) == IF Bit(m.ppu.ppu_ctrl, VRAM_INCREMENT) = 1 THEN 32 ELSE 1

\* `self.vram_v += increment` on a u16
vram_v_add(m, k) ==
    IF ~Running(m) THEN m
    ELSE IF Ovf(m, m.ppu.vram_v + k, 16) THEN Panic(m)
    ELSE [m EXCEPT !.ppu.vram_v = (@ + k) % 65536]

\* a PPUADDR whose first write already reaches v
ppu_register_write_early(m, addr, data) ==
    IF ~Running(m) THEN m
    ELSE CASE addr = 8192 ->
            [m EXCEPT !.ppu.vram_t = BitAnd(@, 62463) + (data % 4) * 1024,
                      !.ppu.ppu_ctrl = data]
         [] addr = 8193 -> [m EXCEPT !.ppu.ppu_mask = data]
         [] addr = 8197 ->
            IF ~m.ppu.write_toggle
            THEN [m EXCEPT !.ppu.vram_x = data % 8,
                           !.ppu.vram_t = (@ - (@ % 32)) + ((data \div 8) % 32),
                           !.ppu.write_toggle = TRUE]
            ELSE [m EXCEPT !.ppu.vram_t = BitOr(BitAnd(@, 35871),
                                BitOr((data % 4) * 4096,
                                      BitOr(BitAnd(data, 56) * 4, BitAnd(data, 192) * 4))),
                           !.ppu.write_toggle = FALSE]
         [] addr = 8198 ->
            IF ~m.ppu.write_toggle
            THEN [m EXCEPT !.ppu.vram_t = (@ % 256) + (data % 64) * 256,
                           !.ppu.vram_v = (m.ppu.vram_t % 256) + (data % 64) * 256,
                           !.ppu.write_toggle = TRUE]
            ELSE LET t == (m.ppu.vram_t - (m.ppu.vram_t % 256)) + data
                 IN [m EXCEPT !.ppu.vram_t = t, !.ppu.vram_v = t,
                              !.ppu.write_toggle = FALSE]
         [] addr = 8199 ->
            vram_v_add(ppu_write(m, m.ppu.vram_v % 16384, data), VramIncrement(m))
         [] addr = 8195 -> [m EXCEPT !.ppu.oam_address = data]
         [] addr = 8196 ->
            LET m1 == [m EXCEPT !.ppu.poam = Put(@, m.ppu.oam_address, data)]
            IN IF Ovf(m, m.ppu.oam_address + 1, 8) THEN Panic(m1)
               ELSE [m1 EXCEPT !.ppu.oam_address = (@ + 1) % 256]
         [] OTHER -> Panic(m)

ppu_register_write(m, addr, data) ==
    IF ~Running(m) THEN m
    ELSE CASE addr = 8192 ->
            [m EXCEPT !.ppu.vram_t = BitAnd(@, 62463) + (data % 4) * 1024,
                      !.ppu.ppu_ctrl = data]
         [] addr = 8193 -> [m EXCEPT !.ppu.ppu_mask = data]
         [] addr = 8197 ->
            IF ~m.ppu.write_toggle
            THEN [m EXCEPT !.ppu.vram_x = data % 8,
                           !.ppu.vram_t = (@ - (@ % 32)) + ((data \div 8) % 32),
                           !.ppu.write_toggle = TRUE]
            ELSE [m EXCEPT !.ppu.vram_t = BitOr(BitAnd(@, 35871),
                                BitOr((data % 4) * 4096,
                                      BitOr(BitAnd(data, 56) * 4, BitAnd(data, 192) * 4))),
                           !.ppu.write_toggle = FALSE]
         [] addr = 8198 ->
            IF ~m.ppu.write_toggle
            THEN [m EXCEPT !.ppu.vram_t = (@ % 256) + (data % 64) * 256,
                           !.ppu.write_toggle = TRUE]
            ELSE LET t == (m.ppu.vram_t - (m.ppu.vram_t % 256)) + data
                 IN [m EXCEPT !.ppu.vram_t = t, !.ppu.vram_v = t,
                              !.ppu.write_toggle = FALSE]
         [] addr = 8199 ->
            vram_v_add(ppu_write(m, m.ppu.vram_v % 16384, data), VramIncrement(m))
         [] addr = 8195 -> [m EXCEPT !.ppu.oam_address = data]
         [] addr = 8196 ->
            LET m1 == [m EXCEPT !.ppu.poam = Put(@, m.ppu.oam_address, data)]
            IN IF Ovf(m, m.ppu.oam_address + 1, 8) THEN Panic(m1)
               ELSE [m1 EXCEPT !.ppu.oam_address = (@ + 1) % 256]
         [] OTHER -> Panic(m)

\* a PPUSTATUS read that leaves VBLANK as it is
ppu_register_read_keep(m, addr) ==
    IF ~Running(m) THEN [m |-> m, v |-> 0]
    ELSE CASE addr = 8194 ->
            [m |-> [m EXCEPT !.ppu.write_toggle = FALSE], v |-> m.ppu.ppu_status]
         [] addr = 8199 ->
            IF m.ppu.vram_v < 16128
            THEN LET r == ppu_read(m, m.ppu.vram_v % 16384)
                 IN IF ~r.ok THEN [m |-> Panic(m), v |-> 0]
                    ELSE [m |-> vram_v_add([m EXCEPT !.ppu.data_bus_next = r.v], VramIncrement(m)),
                          v |-> m.ppu.data_bus_next]
            ELSE LET r == ppu_read(m, addr % 16384)
                 IN IF ~r.ok THEN [m |-> Panic(m), v |-> 0]
                    ELSE [m |-> vram_v_add(m, VramIncrement(m)), v |-> r.v]
         [] OTHER -> [m |-> Panic(m), v |-> 0]

\* gives [m, v]: the machine after the read and the byte read
ppu_register_read(m, addr) ==
    IF ~Running(m) THEN [m |-> m, v |-> 0]
    ELSE CASE addr = 8194 ->
            [m |-> [m EXCEPT !.ppu.ppu_status = SetBit(@, VBLANK, 0),
                             !.ppu.write_toggle = FALSE],
             v |-> m.ppu.ppu_status]
         [] addr = 8199 ->
            IF m.ppu.vram_v < 16128
            THEN LET r == ppu_read(m, m.ppu.vram_v % 16384)
                 IN IF ~r.ok THEN [m |-> Panic(m), v |-> 0]
                    ELSE [m |-> vram_v_add([m EXCEPT !.ppu.data_bus_next = r.v], VramIncrement(m)),
                          v |-> m.ppu.data_bus_next]
            ELSE LET r == ppu_read(m, addr % 16384)
                 IN IF ~r.ok THEN [m |-> Panic(m), v |-> 0]
                    ELSE [m |-> vram_v_add(m, VramIncrement(m)), v |-> r.v]
         [] OTHER -> [m |-> Panic(m), v |-> 0]

(***************************************************************************)
(* NESPpu::ppu_tick (ppu.rs:376-803), one dot at a time.  Each stage below *)
(* is one block of the loop body, in source order.                         *)
(***************************************************************************)
InRange(x, lo, hi) == lo <= x /\ x <= hi

\* PPUMASK::RENDERING is BACKGROUND | SPRITES, and contains() wants both
Rendering(m) == Bit(m.ppu.ppu_mask, BACKGROUND) = 1 /\ Bit(m.ppu.ppu_mask, SPRITES) = 1

\* self.read(addr) inside the dot, its byte handed to Upd
PpuLoad(m, addr, Upd(_, _)) ==
    IF ~Running(m) THEN m
    ELSE LET r == ppu_read(m, addr)
         IN IF r.ok THEN Upd(m, r.v) ELSE Panic(m)

Shl16(x) == (x * 2) % 65536

Shl8(x) == (x * 2) % 256

\* ppu.rs:382-384
IdleSkip(m) ==
    IF m.ppu.scanline = 0 /\ m.ppu.tick = 0 THEN [m EXCEPT !.ppu.tick = 1] ELSE m

\* a pre-render line that leaves the status as it is
PreRenderClear_never(m) == m

\* ppu.rs:387-390
PreRenderClear(m) ==
    IF m.ppu.scanline = 261 /\ m.ppu.tick = 1 THEN [m EXCEPT !.ppu.ppu_status = 0] ELSE m

\* ppu.rs:393-399
BgShift(m) ==
    IF Bit(m.ppu.ppu_mask, BACKGROUND) = 1
    THEN [m EXCEPT !.ppu.bg_attribute_shift_reg_hi = Shl16(@),
                   !.ppu.bg_attribute_shift_reg_lo = Shl16(@),
                   !.ppu.bg_pattern_shift_reg_hi = Shl16(@),
                   !.ppu.bg_pattern_shift_reg_lo = Shl16(@)]
    ELSE m

\* ppu.rs:401-411
SpriteShift(m) ==
    IF Bit(m.ppu.ppu_mask, SPRITES) = 1 /\ m.ppu.tick < 258
    THEN [m EXCEPT !.ppu.sprite_x_position_counter =
                        [s \in 0..7 |-> IF @[s] > 0 THEN @[s] - 1 ELSE @[s]],
                   !.ppu.sprite_pattern_shift_reg_hi = [s \in 0..7 |-> Shl8(@[s])],
                   !.ppu.sprite_pattern_shift_reg_lo = [s \in 0..7 |-> Shl8(@[s])]]
    ELSE m

BgPatternAddr(m) ==
    Bit(m.ppu.ppu_ctrl, 4) * 4096 + m.ppu.bg_next_tile * 16

\* ppu.rs:444-452
CoarseXIncrement(m) ==
    IF ~Rendering(m) THEN m
    ELSE IF m.ppu.vram_v % 32 = 31
    THEN [m EXCEPT !.ppu.vram_v = BitXor(@ - 31, 1024)]
    ELSE vram_v_add(m, 1)

\* ppu.rs:413-455
BgFetch(m) ==
    LET sub == (m.ppu.tick - 1) % 8
        v == m.ppu.vram_v
        fy == (v \div 4096) % 8
    IN CASE sub = 0 ->
            PpuLoad([m EXCEPT
                !.ppu.bg_pattern_shift_reg_hi = (@ - (@ % 256)) + m.ppu.bg_pattern_next_hi,
                !.ppu.bg_pattern_shift_reg_lo = (@ - (@ % 256)) + m.ppu.bg_pattern_next_lo,
                !.ppu.bg_attribute_shift_reg_hi =
                    (@ - (@ % 256)) + (IF m.ppu.bg_attribute_next_hi % 2 = 1 THEN 255 ELSE 0),
                !.ppu.bg_attribute_shift_reg_lo =
                    (@ - (@ % 256)) + (IF m.ppu.bg_attribute_next_lo % 2 = 1 THEN 255 ELSE 0)],
                tile_attr_from_vram_addr(v)[1],
                LAMBDA n, b : [n EXCEPT !.ppu.bg_next_tile = b])
         [] sub = 2 ->
            PpuLoad(m, tile_attr_from_vram_addr(v)[2],
                    LAMBDA n, b : [n EXCEPT !.ppu.bg_next_attr = b])
         [] sub = 4 ->
            PpuLoad(m, BgPatternAddr(m) + fy,
                    LAMBDA n, b : [n EXCEPT !.ppu.bg_pattern_next_lo = b])
         [] sub = 6 ->
            PpuLoad(m, BgPatternAddr(m) + fy + 8,
                    LAMBDA n, b : [n EXCEPT !.ppu.bg_pattern_next_hi = b])
         [] sub = 7 -> CoarseXIncrement(m)
         [] OTHER -> m

\* ppu.rs:392-456
ShiftAndFetch(m) ==
    IF Running(m) /\ (InRange(m.ppu.tick, 2, 258) \/ InRange(m.ppu.tick, 321, 336))
    THEN BgFetch(SpriteShift(BgShift(m)))
    ELSE m

\* ppu.rs:458-479
FineYIncrement(m) ==
    IF Running(m) /\ m.ppu.tick = 256 /\ Rendering(m)
    THEN LET v == m.ppu.vram_v
         IN IF (v \div 4096) % 8 # 7 THEN [m EXCEPT !.ppu.vram_v = v + 4096]
            ELSE LET v1 == v - 28672
                     y == (v1 \div 32) % 32
                     v2 == IF y = 29 THEN BitXor(v1, 2048) ELSE v1
                     y2 == IF y = 29 \/ y = 31 THEN 0 ELSE y + 1
                 IN [m EXCEPT !.ppu.vram_v = (v2 - ((v2 \div 32) % 32) * 32) + y2 * 32]
    ELSE m

\* ppu.rs:481-486
CopyHorizontal(m) ==
    IF Running(m) /\ m.ppu.tick = 257 /\ Rendering(m)
    THEN [m EXCEPT !.ppu.vram_v = BitOr(BitAnd(@, 64480), BitAnd(m.ppu.vram_t, 1055))]
    ELSE m

\* ppu.rs:488-493
CopyVertical(m) ==
    IF Running(m) /\ m.ppu.scanline = 261 /\ InRange(m.ppu.tick, 280, 304) /\ Rendering(m)
    THEN [m EXCEPT !.ppu.vram_v = BitOr(BitAnd(@, 33823), BitAnd(m.ppu.vram_t, 31712))]
    ELSE m

\* ppu.rs:495-498
SuperfluousFetch(m) ==
    IF Running(m) /\ m.ppu.tick \in {338, 340}
    THEN PpuLoad(m, 8192 + (m.ppu.vram_v % 4096),
                 LAMBDA n, b : [n EXCEPT !.ppu.bg_next_tile = b])
    ELSE m

(***************************************************************************)
(* Sprite evaluation and fetching (ppu.rs:500-686).                        *)
(***************************************************************************)
\* `self.poam[i]` : an index past the array aborts
PoamAt(m, i, Upd(_, _)) ==
    IF ~Running(m) THEN m
    ELSE IF i > 255 THEN Panic(m)
    ELSE Upd(m, Get(m.ppu.poam, i))

\* `self.soam[i] = v`
SoamPut(m, i, v) ==
    IF ~Running(m) THEN m
    ELSE IF i > 31 THEN Panic(m)
    ELSE [m EXCEPT !.ppu.soam[i] = v]

\* (poam_data..(poam_data+8)).contains(&(scanline as u8)); the u8 sum
\* aborts in a debug build and wraps to an empty range in release
RangeOverflows(m) == Ovf(m, m.ppu.poam_data + 8, 8)

SpriteOnScanline(m) ==
    LET sl == m.ppu.scanline % 256
    IN m.ppu.poam_data <= sl /\ sl < (m.ppu.poam_data + 8) % 256

PoamIndex(m) == 4 * m.ppu.poam_sprite_index + m.ppu.poam_sprite_byte_index

SoamIndex(m) == 4 * m.ppu.soam_next_open_slot + m.ppu.poam_sprite_byte_index

\* ppu.rs:517-541
EvalOverflowCheck(m) ==
    LET m1 == PoamAt(m, PoamIndex(m), LAMBDA n, b : [n EXCEPT !.ppu.poam_data = b])
    IN IF ~Running(m1) THEN m1
       ELSE IF RangeOverflows(m1) THEN Panic(m1)
       ELSE IF SpriteOnScanline(m1)
       THEN LET bi == m1.ppu.poam_sprite_byte_index + 1
            IN [m1 EXCEPT !.ppu.ppu_status = SetBit(@, SPRITE_OVERFLOW, 1),
                          !.ppu.poam_sprite_byte_index = IF bi >= 4 THEN 0 ELSE bi,
                          !.ppu.poam_sprite_index = IF bi >= 4 THEN @ + 1 ELSE @]
       ELSE LET si == m1.ppu.poam_sprite_index + 1
                bi == m1.ppu.poam_sprite_byte_index + 1
            IN [m1 EXCEPT !.ppu.poam_sprite_byte_index = IF si >= 64 /\ bi < 4 THEN bi ELSE 0,
                          !.ppu.poam_sprite_index = si,
                          !.ppu.sprite_evaluation_substage = IF si >= 64 THEN 4 ELSE @]

\* ppu.rs:508-543
EvalOdd(m) ==
    CASE m.ppu.sprite_evaluation_substage = 1 ->
            PoamAt(m, PoamIndex(m), LAMBDA n, b : [n EXCEPT !.ppu.poam_data = b])
      [] m.ppu.sprite_evaluation_substage = 3 -> EvalOverflowCheck(m)
      [] OTHER -> m

\* ppu.rs:546-574
EvalCopy(m) ==
    IF m.ppu.sprite_evaluation_write_rest
    THEN LET m1 == SoamPut(m, SoamIndex(m), m.ppu.poam_data)
             bi == m.ppu.poam_sprite_byte_index + 1
         IN IF ~Running(m1) THEN m1
            ELSE IF bi >= 4
            THEN [m1 EXCEPT !.ppu.sprite_evaluation_write_rest = FALSE,
                            !.ppu.poam_sprite_byte_index = 0,
                            !.ppu.soam_next_open_slot = @ + 1,
                            !.ppu.sprite_evaluation_substage = 2]
            ELSE [m1 EXCEPT !.ppu.poam_sprite_byte_index = bi]
    ELSE LET m1 == IF m.ppu.soam_next_open_slot <= 7
                   THEN SoamPut(m, SoamIndex(m), m.ppu.poam_data) ELSE m
         IN IF ~Running(m1) THEN m1
            ELSE IF RangeOverflows(m1) THEN Panic(m1)
            ELSE IF SpriteOnScanline(m1)
            THEN [m1 EXCEPT !.ppu.poam_sprite_byte_index = @ + 1,
                            !.ppu.sprite_evaluation_write_rest = TRUE]
            ELSE [m1 EXCEPT !.ppu.poam_sprite_byte_index = 0,
                            !.ppu.soam_next_open_slot = @ + 1,
                            !.ppu.sprite_evaluation_substage = 2]

\* ppu.rs:575-593
EvalNextSprite(m) ==
    LET si == m.ppu.poam_sprite_index + 1
    IN IF si >= 64
       THEN [m EXCEPT !.ppu.poam_sprite_index = 0, !.ppu.sprite_evaluation_substage = 4]
       ELSE [m EXCEPT !.ppu.poam_sprite_index = si,
                      !.ppu.sprite_evaluation_substage =
                          IF m.ppu.soam_next_open_slot <= 7 THEN 1
                          ELSE IF m.ppu.soam_next_open_slot = 8 THEN 3 ELSE @]

\* ppu.rs:544-596
EvalEven(m) ==
    CASE m.ppu.sprite_evaluation_substage = 1 -> EvalCopy(m)
      [] m.ppu.sprite_evaluation_substage = 2 -> EvalNextSprite(m)
      [] OTHER -> m

\* ppu.rs:643-645 : gives [ok, v]; the u16 subtractions abort in a debug build
SpriteFineY(m) ==
    LET y == m.ppu.sprite_render_oam_y_coord
        d == WrapSub(m.ppu.scanline, y, 16)
    IN IF Unf(m, m.ppu.scanline, y) THEN [ok |-> FALSE, v |-> 0]
       ELSE IF Bit(m.ppu.sprite_render_oam_attribute, 7) = 1 THEN [ok |-> TRUE, v |-> d % 8]
       ELSE IF Unf(m, 7, d) THEN [ok |-> FALSE, v |-> 0]
       ELSE [ok |-> TRUE, v |-> WrapSub(7, d, 16) % 8]

RECURSIVE ReverseBitsN(_, _)
ReverseBitsN(t, n) ==
    IF n = 0 THEN 0 ELSE (t % 2) * Pow2(n - 1) + ReverseBitsN(t \div 2, n - 1)

\* ppu.rs:653-659 : the three swaps reverse the byte when bit 6 is set
SpriteFlip(m, t) ==
    IF Bit(m.ppu.sprite_render_oam_attribute, 6) = 1 THEN ReverseBitsN(t, 8) ELSE t

SpritePatternAddr(m, fine_y) ==
    Bit(m.ppu.ppu_ctrl, 3) * 4096 + m.ppu.sprite_render_oam_tile_number * 16 + fine_y

\* ppu.rs:598-683
SpriteFetch(m) ==
    LET m1 == IF m.ppu.tick = 257
              THEN [m EXCEPT !.ppu.sprite_evaluation_substage = 1,
                             !.ppu.soam_next_open_slot = 0,
                             !.ppu.poam_sprite_index = 0,
                             !.ppu.poam_sprite_byte_index = 0]
              ELSE m
        i == ((m.ppu.tick - 1) \div 8) % 8
        sub == (m.ppu.tick - 1) % 8
        fy == SpriteFineY(m1)
    IN CASE sub = 0 ->
            [m1 EXCEPT !.ppu.sprite_render_oam_y_coord = m.ppu.soam[i * 4],
                       !.ppu.sprite_render_oam_tile_number = m.ppu.soam[i * 4 + 1],
                       !.ppu.sprite_render_oam_attribute = m.ppu.soam[i * 4 + 2],
                       !.ppu.sprite_render_oam_x_coord = m.ppu.soam[i * 4 + 3]]
         [] sub = 2 ->
            [m1 EXCEPT !.ppu.sprite_attribute_latch[i] = m.ppu.sprite_render_oam_attribute]
         [] sub = 3 ->
            [m1 EXCEPT !.ppu.sprite_x_position_counter[i] = m.ppu.sprite_render_oam_x_coord]
         [] sub = 4 ->
            IF ~fy.ok THEN Panic(m1)
            ELSE PpuLoad(m1, SpritePatternAddr(m1, fy.v),
                    LAMBDA n, b : [n EXCEPT !.ppu.sprite_pattern_shift_reg_hi[i] = SpriteFlip(n, b)])
         [] sub = 6 ->
            IF ~fy.ok THEN Panic(m1)
            ELSE PpuLoad(m1, SpritePatternAddr(m1, fy.v + 8),
                    LAMBDA n, b : [n EXCEPT !.ppu.sprite_pattern_shift_reg_lo[i] = SpriteFlip(n, b)])
         [] OTHER -> m1

\* ppu.rs:501-686
SpriteStage(m) ==
    IF ~Running(m) \/ ~Rendering(m) THEN m
    ELSE IF InRange(m.ppu.tick, 1, 32) THEN SoamPut(m, m.ppu.tick - 1, 255)
    ELSE IF InRange(m.ppu.tick, 65, 256)
    THEN IF m.ppu.tick % 2 = 1 THEN EvalOdd(m) ELSE EvalEven(m)
    ELSE IF InRange(m.ppu.tick, 257, 320) THEN SpriteFetch(m)
    ELSE m

(***************************************************************************)
(* Vertical blank, pixel output and dot bookkeeping (ppu.rs:688-799).      *)
(***************************************************************************)
\* a vertical blank that requests the NMI whatever PPUCTRL says
VBlankStart_always(m) ==
    IF Running(m) /\ m.ppu.scanline = 241 /\ m.ppu.tick = 1
    THEN [m EXCEPT !.ppu.ppu_status = SetBit(@, VBLANK, 1), !.cpu.do_nmi = TRUE]
    ELSE m

\* ppu.rs:688-695 : the one place where the PPU reaches into the CPU
VBlankStart(m) ==
    IF Running(m) /\ m.ppu.scanline = 241 /\ m.ppu.tick = 1
    THEN [m EXCEPT !.ppu.ppu_status = SetBit(@, VBLANK, 1),
                   !.cpu.do_nmi = IF Bit(m.ppu.ppu_ctrl, NMI_ENABLED) = 1 THEN TRUE ELSE @]
    ELSE m

\* ppu.rs:378-697 : the match on the scanline
ScanlineWork(m) ==
    IF InRange(m.ppu.scanline, 0, 239) \/ m.ppu.scanline = 261
    THEN SpriteStage(SuperfluousFetch(CopyVertical(CopyHorizontal(
             FineYIncrement(ShiftAndFetch(PreRenderClear(IdleSkip(m))))))))
    ELSE IF InRange(m.ppu.scanline, 241, 260) THEN VBlankStart(m)
    ELSE m

\* ppu.rs:709-733 : the first sprite with a zero counter and a non-zero pixel
\* wins; without one the last sprite with a zero counter leaves its latch
RECURSIVE SpritePixelFrom(_, _, _)
SpritePixelFrom(m, s, acc) ==
    IF s > 7 THEN acc
    ELSE IF m.ppu.sprite_x_position_counter[s] # 0 THEN SpritePixelFrom(m, s + 1, acc)
    ELSE LET px == 2 * Bit(m.ppu.sprite_pattern_shift_reg_hi[s], 7)
                     + Bit(m.ppu.sprite_pattern_shift_reg_lo[s], 7)
             here == [sp_pixel |-> px,
                      sp_palette |-> (m.ppu.sprite_attribute_latch[s] % 4) + 4,
                      sp_latch |-> m.ppu.sprite_attribute_latch[s],
                      sp_is_zero |-> px > 0 /\ s = 0]
         IN IF px > 0 THEN here ELSE SpritePixelFrom(m, s + 1, here)

\* ppu.rs:701-734
SpritePixel(m) ==
    LET none == [sp_pixel |-> 0, sp_palette |-> 0, sp_latch |-> 0, sp_is_zero |-> FALSE]
    IN IF Bit(m.ppu.ppu_mask, SPRITES) = 1 THEN SpritePixelFrom(m, 0, none) ELSE none

\* ppu.rs:739-754
BackgroundPixel(m) ==
    LET n == 15 - m.ppu.vram_x
    IN IF Bit(m.ppu.ppu_mask, BACKGROUND) = 1
       THEN [bg_pixel |-> 2 * Bit(m.ppu.bg_pattern_shift_reg_hi, n)
                            + Bit(m.ppu.bg_pattern_shift_reg_lo, n),
             bg_palette |-> 2 * Bit(m.ppu.bg_attribute_shift_reg_hi, n)
                              + Bit(m.ppu.bg_attribute_shift_reg_lo, n)]
       ELSE [bg_pixel |-> 0, bg_palette |-> 0]

\* ppu.rs:758-771 : the priority multiplexer, as <<out_pixel, out_palette>>
Mux(sp, bg) ==
    IF sp.sp_pixel # 0 /\ (Bit(sp.sp_latch, 5) = 0 \/ bg.bg_pixel = 0)
    THEN <<sp.sp_pixel, sp.sp_palette>>
    ELSE <<bg.bg_pixel, bg.bg_palette>>

\* ppu.rs:699-789
PixelOutput(m) ==
    IF ~Running(m) THEN m
    ELSE LET out == Mux(SpritePixel(m), BackgroundPixel(m))
         IN PpuLoad(m, 16128 + out[2] * 4 + out[1],
                LAMBDA n, colour :
                    IF InRange(n.ppu.scanline, 0, 239) /\ InRange(n.ppu.tick, 1, 256)
                    THEN [n EXCEPT !.ppu.frame =
                              Put(@, n.ppu.scanline * 256 + (n.ppu.tick - 1), colour)]
                    ELSE n)

\* a dot counter that wraps one dot early
AdvanceDot_short(m) ==
    IF ~Running(m) THEN m
    ELSE LET t == m.ppu.tick + 1
             sl == m.ppu.scanline + 1
         IN IF t >= 340
            THEN IF sl >= 262
                 THEN [m EXCEPT !.ppu.tick = 0, !.ppu.scanline = 0, !.ppu.frame_ready = TRUE]
                 ELSE [m EXCEPT !.ppu.tick = 0, !.ppu.scanline = sl]
            ELSE [m EXCEPT !.ppu.tick = t]

\* ppu.rs:791-799
AdvanceDot(m) ==
    IF ~Running(m) THEN m
    ELSE LET t == m.ppu.tick + 1
             sl == m.ppu.scanline + 1
         IN IF t >= 341
            THEN IF sl >= 262
                 THEN [m EXCEPT !.ppu.tick = 0, !.ppu.scanline = 0, !.ppu.frame_ready = TRUE]
                 ELSE [m EXCEPT !.ppu.tick = 0, !.ppu.scanline = sl]
            ELSE [m EXCEPT !.ppu.tick = t]

\* one iteration of the loop of ppu_tick
ppu_dot(m) == IF Running(m) THEN AdvanceDot(PixelOutput(ScanlineWork(m))) ELSE m

\* ppu_tick(count)
RECURSIVE ppu_tick(_, _)
ppu_tick(m, count) == IF count = 0 THEN m ELSE ppu_tick(ppu_dot(m), count - 1)

(***************************************************************************)
(* CPUMemory (cpu/mem.rs): the CPU's bus.                                  *)
(***************************************************************************)
\* `addr + 1` on a u16: gives [ok, v]
Inc16(m, addr) == [ok |-> ~Ovf(m, addr + 1, 16), v |-> (addr + 1) % 65536]

\* MemoryRead::read, the side-effect-less read (mem.rs:20-42): gives [ok, v]
read(m, addr) ==
    IF addr <= 8191 THEN [ok |-> TRUE, v |-> Get(m.mem.internal_ram, addr % 2048)]
    ELSE IF addr <= 16383 THEN [ok |-> FALSE, v |-> 0]
    ELSE IF addr <= 16407 THEN [ok |-> TRUE, v |-> m.mem.io_registers[addr - 16384]]
    ELSE IF addr <= 16415 THEN [ok |-> TRUE, v |-> 0]
    ELSE [ok |-> TRUE, v |-> CPUMapper000_read(m, addr)]

\* MemoryRead::read_mut, the read with side effects (mem.rs:44-76): gives [m, v]
read_mut(m, addr) ==
    IF ~Running(m) THEN [m |-> m, v |-> 0]
    ELSE IF addr <= 8191 THEN [m |-> m, v |-> Get(m.mem.internal_ram, addr % 2048)]
    ELSE IF addr <= 16383 THEN ppu_register_read(m, 8192 + (addr % 8))
    ELSE IF addr <= 16407 THEN
        IF addr = 16406
        THEN [m |-> IF ~m.mem.joy_freeze THEN [m EXCEPT !.joy1_in = @ \div 2] ELSE m,
              v |-> m.joy1_in % 2]
        ELSE [m |-> m, v |-> 0]
    ELSE IF addr <= 16415 THEN [m |-> m, v |-> 0]
    ELSE [m |-> m, v |-> CPUMapper000_read(m, addr)]

\* mem.rs:78-80
read_16(m, addr) ==
    Bind(read(m, addr), LAMBDA lo :
    Bind(Inc16(m, addr), LAMBDA nxt :
    Bind(read(m, nxt.v), LAMBDA hi :
        IF lo.ok /\ nxt.ok /\ hi.ok THEN [ok |-> TRUE, v |-> lo.v + 256 * hi.v]
        ELSE [ok |-> FALSE, v |-> 0])))

\* mem.rs:82-84
read_16_mut(m, addr) ==
    Bind(read_mut(m, addr), LAMBDA lo :
        LET nxt == Inc16(lo.m, addr)
        IN IF ~Running(lo.m) THEN [m |-> lo.m, v |-> 0]
           ELSE IF ~nxt.ok THEN [m |-> Panic(lo.m), v |-> 0]
           ELSE Bind(read_mut(lo.m, nxt.v), LAMBDA hi :
                    [m |-> hi.m, v |-> lo.v + 256 * hi.v]))

\* mem.rs:136-148 : the APU and I/O window of write
write_io(m, addr, data) ==
    LET m1 == IF addr = 16406
              THEN IF data % 2 = 1
                   THEN [m EXCEPT !.mem.joy_freeze = TRUE,
                                  !.mem.io_registers[22] = m.joy1_in]
                   ELSE [m EXCEPT !.mem.joy_freeze = FALSE]
              ELSE m
    IN [m1 EXCEPT !.mem.io_registers[addr - 16384] = data]

\* a write that keeps bit 11 of the address
write_nomirror(m, addr, data) ==
    IF ~Running(m) THEN m
    ELSE IF addr <= 8191 THEN [m EXCEPT !.mem.internal_ram = Put(@, addr % 4096, data)]
    ELSE IF addr <= 16383 THEN ppu_register_write(m, 8192 + (addr % 8), data)
    ELSE IF addr <= 16407 THEN write_io(m, addr, data)
    ELSE IF addr <= 16415 THEN m
    ELSE CPUMapper000_write(m, addr, data)

\* CPUMemory::write (mem.rs:123-161)
write(m, addr, data) ==
    IF ~Running(m) THEN m
    ELSE IF addr <= 8191 THEN [m EXCEPT !.mem.internal_ram = Put(@, addr % 2048, data)]
    ELSE IF addr <= 16383 THEN ppu_register_write(m, 8192 + (addr % 8), data)
    ELSE IF addr <= 16407 THEN write_io(m, addr, data)
    ELSE IF addr <= 16415 THEN m
    ELSE CPUMapper000_write(m, addr, data)

\* CPUMemory::write_poam, which the DMA branch of tick calls (cpu.rs:132)
\* and whose body is not part of the sources at hand: the i-th byte of a
\* transfer lands at poam[(OAMADDR + i) & $FF]
write_poam(m, i, data) ==
    IF ~Running(m) THEN m
    ELSE [m EXCEPT !.ppu.poam = Put(@, (m.ppu.oam_address + i) % 256, data)]

(***************************************************************************)
(* The instruction table (cpu/decode.rs).                                  *)
(***************************************************************************)
\* decode.rs:38-107 : <<opcode, mnemonic, addressing mode, cycles>>
LutRows == {
    <<105, "ADC", "IMM", 2>>, <<101, "ADC", "ZP", 3>>, <<117, "ADC", "ZPX", 4>>, <<109, "ADC", "ABS", 4>>,
    <<125, "ADC", "ABX", 4>>, <<121, "ADC", "ABY", 4>>, <<97, "ADC", "IDI", 6>>, <<113, "ADC", "IID", 5>>,
    <<41, "AND", "IMM", 2>>, <<37, "AND", "ZP", 3>>, <<53, "AND", "ZPX", 4>>, <<45, "AND", "ABS", 4>>,
    <<61, "AND", "ABX", 4>>, <<57, "AND", "ABY", 4>>, <<33, "AND", "IDI", 6>>, <<49, "AND", "IID", 5>>,
    <<10, "ASL", "ACC", 2>>, <<6, "ASL", "ZP", 5>>, <<22, "ASL", "ZPX", 6>>, <<14, "ASL", "ABS", 6>>,
    <<30, "ASL", "ABX", 7>>, <<144, "BCC", "REL", 2>>, <<176, "BCS", "REL", 2>>, <<240, "BEQ", "REL", 2>>,
    <<36, "BIT", "ZP", 3>>, <<44, "BIT", "ABS", 4>>, <<48, "BMI", "REL", 2>>, <<208, "BNE", "REL", 2>>,
    <<16, "BPL", "REL", 2>>, <<0, "BRK", "IMP", 7>>, <<80, "BVC", "REL", 2>>, <<112, "BVS", "REL", 2>>,
    <<24, "CLC", "IMP", 2>>, <<216, "CLD", "IMP", 2>>, <<88, "CLI", "IMP", 2>>, <<184, "CLV", "IMP", 2>>,
    <<201, "CMP", "IMM", 2>>, <<197, "CMP", "ZP", 3>>, <<213, "CMP", "ZPX", 4>>, <<205, "CMP", "ABS", 4>>,
    <<221, "CMP", "ABX", 4>>, <<217, "CMP", "ABY", 4>>, <<193, "CMP", "IDI", 6>>, <<209, "CMP", "IID", 5>>,
    <<224, "CPX", "IMM", 2>>, <<228, "CPX", "ZP", 3>>, <<236, "CPX", "ABS", 4>>, <<192, "CPY", "IMM", 2>>,
    <<196, "CPY", "ZP", 3>>, <<204, "CPY", "ABS", 4>>, <<198, "DEC", "ZP", 5>>, <<214, "DEC", "ZPX", 6>>,
    <<206, "DEC", "ABS", 6>>, <<222, "DEC", "ABX", 7>>, <<202, "DEX", "IMP", 2>>, <<136, "DEY", "IMP", 2>>,
    <<73, "EOR", "IMM", 2>>, <<69, "EOR", "ZP", 3>>, <<85, "EOR", "ZPX", 4>>, <<77, "EOR", "ABS", 4>>,
    <<93, "EOR", "ABX", 4>>, <<89, "EOR", "ABY", 3>>, <<65, "EOR", "IDI", 6>>, <<81, "EOR", "IID", 5>>,
    <<230, "INC", "ZP", 5>>, <<246, "INC", "ZPX", 6>>, <<238, "INC", "ABS", 6>>, <<254, "INC", "ABX", 7>>,
    <<232, "INX", "IMP", 2>>, <<200, "INY", "IMP", 2>>, <<76, "JMP", "ABS", 3>>, <<108, "JMP", "IND", 5>>,
    <<32, "JSR", "ABS", 6>>, <<169, "LDA", "IMM", 2>>, <<165, "LDA", "ZP", 3>>, <<181, "LDA", "ZPX", 4>>,
    <<173, "LDA", "ABS", 4>>, <<189, "LDA", "ABX", 4>>, <<185, "LDA", "ABY", 4>>, <<161, "LDA", "IDI", 6>>,
    <<177, "LDA", "IID", 5>>, <<162, "LDX", "IMM", 2>>, <<166, "LDX", "ZP", 3>>, <<182, "LDX", "ZPY", 4>>,
    <<174, "LDX", "ABS", 4>>, <<190, "LDX", "ABY", 4>>, <<160, "LDY", "IMM", 2>>, <<164, "LDY", "ZP", 3>>,
    <<180, "LDY", "ZPX", 4>>, <<172, "LDY", "ABS", 4>>, <<188, "LDY", "ABX", 4>>, <<74, "LSR", "ACC", 2>>,
    <<70, "LSR", "ZP", 5>>, <<86, "LSR", "ZPX", 6>>, <<78, "LSR", "ABS", 6>>, <<94, "LSR", "ABX", 7>>,
    <<234, "NOP", "IMP", 2>>, <<9, "ORA", "IMM", 2>>, <<5, "ORA", "ZP", 3>>, <<21, "ORA", "ZPX", 4>>,
    <<13, "ORA", "ABS", 4>>, <<29, "ORA", "ABX", 4>>, <<25, "ORA", "ABY", 4>>, <<1, "ORA", "IDI", 6>>,
    <<17, "ORA", "IID", 5>>, <<72, "PHA", "IMP", 3>>, <<8, "PHP", "IMP", 3>>, <<104, "PLA", "IMP", 4>>,
    <<40, "PLP", "IMP", 4>>, <<42, "ROL", "ACC", 2>>, <<38, "ROL", "ZP", 5>>, <<54, "ROL", "ZPX", 6>>,
    <<46, "ROL", "ABS", 6>>, <<62, "ROL", "ABX", 7>>, <<106, "ROR", "ACC", 2>>, <<102, "ROR", "ZP", 5>>,
    <<118, "ROR", "ZPX", 6>>, <<110, "ROR", "ABS", 6>>, <<126, "ROR", "ABX", 7>>, <<64, "RTI", "IMP", 6>>,
    <<96, "RTS", "IMP", 6>>, <<233, "SBC", "IMM", 2>>, <<229, "SBC", "ZP", 3>>, <<245, "SBC", "ZPX", 4>>,
    <<237, "SBC", "ABS", 4>>, <<253, "SBC", "ABX", 4>>, <<249, "SBC", "ABY", 4>>, <<225, "SBC", "IDI", 6>>,
    <<241, "SBC", "IID", 5>>, <<56, "SEC", "IMP", 2>>, <<248, "SED", "IMP", 2>>, <<120, "SEI", "IMP", 2>>,
    <<133, "STA", "ZP", 3>>, <<149, "STA", "ZPX", 4>>, <<141, "STA", "ABS", 4>>, <<157, "STA", "ABX", 5>>,
    <<153, "STA", "ABY", 5>>, <<129, "STA", "IDI", 6>>, <<145, "STA", "IID", 6>>, <<134, "STX", "ZP", 3>>,
    <<150, "STX", "ZPY", 4>>, <<142, "STX", "ABS", 4>>, <<132, "STY", "ZP", 3>>, <<148, "STY", "ZPX", 4>>,
    <<140, "STY", "ABS", 4>>, <<170, "TAX", "IMP", 2>>, <<168, "TAY", "IMP", 2>>, <<186, "TSX", "IMP", 2>>,
    <<138, "TXA", "IMP", 2>>, <<154, "TXS", "IMP", 2>>, <<152, "TYA", "IMP", 2>>}

\* LUT_6502 : HashMap<u8, Instruction>
LUT_6502 ==
    [op \in {r[1] : r \in LutRows} |->
        LET r == CHOOSE x \in LutRows : x[1] = op
        IN [mnemonic |-> r[2], mode |-> r[3], cycles |-> r[4]]]

(***************************************************************************)
(* NESCpu (cpu.rs).  The fields `cycle` and `last_legal_instruction` only  *)
(* feed the trace output and are left out.                                 *)
(***************************************************************************)
\* resolve_address, first match (cpu.rs:246-271): gives [ok, target, pc_skip]
OperandOf(m, mode) ==
    LET pc1 == Inc16(m, m.cpu.PC)
    IN IF mode \in {"ZP", "ZPX", "ZPY", "IID", "IDI", "REL"}
       THEN Bind(read(m, pc1.v), LAMBDA r :
                [ok |-> pc1.ok /\ r.ok, target |-> r.v, pc_skip |-> 2])
       ELSE IF mode \in {"ABS", "ABX", "ABY", "IND"}
       THEN Bind(read_16(m, pc1.v), LAMBDA r :
                [ok |-> pc1.ok /\ r.ok, target |-> r.v, pc_skip |-> 3])
       ELSE IF mode = "IMM" THEN [ok |-> TRUE, target |-> 0, pc_skip |-> 2]
       ELSE [ok |-> TRUE, target |-> 0, pc_skip |-> 1]

NoAddress == [ok |-> FALSE, addr |-> 0, page_cross |-> FALSE, pc_skip |-> 0]

\* the u8 operand of a branch sign-extended and added with wrapping_add
RelativeTarget(pc, t) == (pc + (IF t >= 128 THEN t + 65280 ELSE t)) % 65536

\* resolve_address, second match (cpu.rs:273-357): gives
\* [ok, addr, page_cross, pc_skip]; `next` is (PC + pc_skip) & 0xFF00
Resolved(m, mode, t, pc_skip) ==
    LET nextSum == m.cpu.PC + pc_skip
        next == (nextSum % 65536) \div 256
        Done(a) == IF Ovf(m, nextSum, 16) THEN NoAddress
                   ELSE [ok |-> TRUE, addr |-> a, page_cross |-> next # a \div 256,
                         pc_skip |-> pc_skip]
        Zp(a) == IF Ovf(m, nextSum, 16) THEN NoAddress
                 ELSE [ok |-> TRUE, addr |-> a, page_cross |-> next # 0, pc_skip |-> pc_skip]
    IN CASE mode = "IMM" ->
            LET pc1 == Inc16(m, m.cpu.PC)
            IN IF pc1.ok THEN [ok |-> TRUE, addr |-> pc1.v, page_cross |-> FALSE,
                               pc_skip |-> pc_skip]
               ELSE NoAddress
         [] mode = "ZP" -> Zp(t % 256)
         [] mode = "ZPX" -> Zp(((t % 256) + m.cpu.X) % 256)
         [] mode = "ZPY" -> Zp(((t % 256) + m.cpu.Y) % 256)
         [] mode = "REL" -> Done(RelativeTarget(m.cpu.PC, t))
         [] mode = "ABS" -> Done(t)
         [] mode = "ABX" ->
            IF Ovf(m, t + m.cpu.X, 16) THEN NoAddress ELSE Done((t + m.cpu.X) % 65536)
         [] mode = "ABY" -> Done((t + m.cpu.Y) % 65536)
         [] mode = "IND" ->
            LET lsb == read(m, t)
                t1 == Inc16(m, t)
                msb == read(m, (t - (t % 256)) + (t1.v % 256))
            IN IF lsb.ok /\ t1.ok /\ msb.ok THEN Done(lsb.v + 256 * msb.v) ELSE NoAddress
         [] mode = "IDI" ->
            LET lsb == read(m, (t + m.cpu.X) % 256)
                msb == read(m, (t + m.cpu.X + 1) % 256)
            IN Done(lsb.v + 256 * msb.v)
         [] mode = "IID" ->
            LET lo == read(m, t).v + m.cpu.Y
                carry == IF lo > 255 THEN 1 ELSE 0
                hi == (read(m, (t + 1) % 256).v + carry) % 256
            IN Done((lo % 256) + 256 * hi)
         [] OTHER -> NoAddress

\* resolve_address (cpu.rs:241-358)
resolve_address(m, mode) ==
    Bind(OperandOf(m, mode), LAMBDA o :
        IF o.ok THEN Resolved(m, mode, o.target, o.pc_skip) ELSE NoAddress)

\* status.set(flag, b)
SetFlag(m, flag, b) == [m EXCEPT !.cpu.status = SetBit(@, flag, B2N(b))]

SetZN(m, v) == SetFlag(SetFlag(m, ZERO, v = 0), NEGATIVE, v >= 128)

\* the extra cycle of a page cross (cpu.rs:380-388 and its copies)
PageCrossPenalty(m, mode, page_cross) ==
    IF page_cross /\ mode \in {"ABX", "ABY", "IID"}
    THEN [m EXCEPT !.cpu.wait_cycles = @ + 1] ELSE m

\* The common opening of the operations on a memory operand: resolve the
\* address, store pc_skip, read the operand with side effects, then Body
WithOperand(m, mode, Body(_, _, _)) ==
    IF ~Running(m) THEN m
    ELSE Bind(resolve_address(m, mode), LAMBDA ra :
        IF ~ra.ok THEN Panic(m)
        ELSE Bind(read_mut([m EXCEPT !.cpu.pc_skip = ra.pc_skip], ra.addr), LAMBDA rd :
            IF ~Running(rd.m) THEN rd.m ELSE Body(rd.m, ra, rd.v)))

\* an adder that ignores the carry flag
op_arithmetic_nocarry(m, mode, ADD) ==
    WithOperand(m, mode, LAMBDA n, ra, raw :
        LET data == IF ADD THEN raw ELSE 255 - raw
            sum == n.cpu.A + data
            result == sum % 256
            n1 == SetFlag(n, CARRY, sum > 255)
            n2 == SetFlag(n1, ZERO, result = 0)
            n3 == SetFlag(n2, OVERFLOW,
                      BitAnd(BitAnd(BitXor(n.cpu.A, result), BitXor(data, result)), 128) # 0)
            n4 == SetFlag(n3, NEGATIVE, result >= 128)
            n5 == PageCrossPenalty(n4, mode, ra.page_cross)
        IN [n5 EXCEPT !.cpu.A = result])

\* op_arithmetic (cpu.rs:361-390); SBC adds the one's complement
op_arithmetic(m, mode, ADD) ==
    WithOperand(m, mode, LAMBDA n, ra, raw :
        LET data == IF ADD THEN raw ELSE 255 - raw
            sum == n.cpu.A + data + Bit(n.cpu.status, CARRY)
            result == sum % 256
            n1 == SetFlag(n, CARRY, sum > 255)
            n2 == SetFlag(n1, ZERO, result = 0)
            n3 == SetFlag(n2, OVERFLOW,
                      BitAnd(BitAnd(BitXor(n.cpu.A, result), BitXor(data, result)), 128) # 0)
            n4 == SetFlag(n3, NEGATIVE, result >= 128)
            n5 == PageCrossPenalty(n4, mode, ra.page_cross)
        IN [n5 EXCEPT !.cpu.A = result])

\* op_load (cpu.rs:393-409)
op_load(m, mode, reg) ==
    WithOperand(m, mode, LAMBDA n, ra, data :
        [PageCrossPenalty(SetZN(n, data), mode, ra.page_cross) EXCEPT !.cpu[reg] = data])

\* op_store (cpu.rs:412-424)
op_store(m, data, mode) ==
    IF ~Running(m) THEN m
    ELSE Bind(resolve_address(m, mode), LAMBDA ra :
        LET m1 == IF ra.addr = 16404
                  THEN [m EXCEPT !.cpu.dma_halt = TRUE, !.cpu.next_dma_addr = data * 256]
                  ELSE m
        IN IF ~ra.ok THEN Panic(m)
           ELSE write([m1 EXCEPT !.cpu.pc_skip = ra.pc_skip], ra.addr, data))

\* op_jump (cpu.rs:427-433)
op_jump(m, mode) ==
    IF ~Running(m) THEN m
    ELSE Bind(resolve_address(m, mode), LAMBDA ra :
        IF ~ra.ok THEN Panic(m)
        ELSE [m EXCEPT !.cpu.PC = ra.addr, !.cpu.pc_skip = 0])

\* op_bit (cpu.rs:436-445)
op_bit(m, mode) ==
    IF ~Running(m) THEN m
    ELSE Bind(resolve_address(m, mode), LAMBDA ra :
        IF ~ra.ok THEN Panic(m)
        ELSE Bind(read_mut(m, ra.addr), LAMBDA rd :
            LET n1 == SetFlag(rd.m, ZERO, BitAnd(m.cpu.A, rd.v) = 0)
                n2 == SetFlag(n1, OVERFLOW, Bit(rd.v, 6) = 1)
                n3 == SetFlag(n2, NEGATIVE, Bit(rd.v, 7) = 1)
            IN IF ~Running(rd.m) THEN rd.m
               ELSE [n3 EXCEPT !.cpu.pc_skip = ra.pc_skip]))

\* op_branch (cpu.rs:448-460)
op_branch(m, reg, set, mode) ==
    IF ~Running(m) THEN m
    ELSE Bind(resolve_address(m, mode), LAMBDA ra :
        IF ~ra.ok THEN Panic(m)
        ELSE IF (Bit(m.cpu.status, reg) = 1) = set
        THEN [m EXCEPT !.cpu.pc_skip = ra.pc_skip,
                       !.cpu.wait_cycles = @ + 1 + B2N(ra.page_cross),
                       !.cpu.PC = ra.addr]
        ELSE [m EXCEPT !.cpu.pc_skip = ra.pc_skip])

\* op_bitwise (cpu.rs:463-482); func is "AND", "EOR" or "ORA"
op_bitwise(m, mode, func) ==
    WithOperand(m, mode, LAMBDA n, ra, data :
        LET result == CASE func = "AND" -> BitAnd(n.cpu.A, data)
                        [] func = "EOR" -> BitXor(n.cpu.A, data)
                        [] func = "ORA" -> BitOr(n.cpu.A, data)
        IN [PageCrossPenalty(SetZN(n, result), mode, ra.page_cross) EXCEPT !.cpu.A = result])

\* op_incdec_addr (cpu.rs:484-493)
op_incdec_addr(m, inc, mode) ==
    WithOperand(m, mode, LAMBDA n, ra, data :
        LET result == IF inc THEN (data + 1) % 256 ELSE WrapSub(data, 1, 8)
        IN Bind(write(n, ra.addr, result), LAMBDA n1 :
               IF Running(n1) THEN SetZN(n1, result) ELSE n1))

\* op_incdec (cpu.rs:496-503)
op_incdec(m, reg, inc) ==
    LET result == IF inc THEN (m.cpu[reg] + 1) % 256 ELSE WrapSub(m.cpu[reg], 1, 8)
    IN [SetZN(m, result) EXCEPT !.cpu.pc_skip = 1, !.cpu[reg] = result]

\* op_rotate (cpu.rs:506-539)
op_rotate(m, mode, left, arith) ==
    LET acc == mode = "ACC"
        old_carry == Bit(m.cpu.status, CARRY)
    IN IF ~Running(m) THEN m
       ELSE Bind(IF acc THEN [ok |-> TRUE, addr |-> 0, page_cross |-> FALSE, pc_skip |-> 1]
                 ELSE resolve_address(m, mode), LAMBDA ra :
           IF ~ra.ok THEN Panic(m)
           ELSE Bind(IF acc THEN [m |-> m, v |-> m.cpu.A] ELSE read_mut(m, ra.addr), LAMBDA rd :
               IF ~Running(rd.m) THEN rd.m
               ELSE Bind(IF left
                         THEN ((rd.v * 2) % 256) + (IF arith THEN 0 ELSE old_carry)
                         ELSE (rd.v \div 2) + (IF arith THEN 0 ELSE old_carry * 128), LAMBDA data :
                   LET n1 == SetFlag(rd.m, CARRY, IF left THEN rd.v >= 128 ELSE rd.v % 2 = 1)
                       n2 == SetFlag(n1, NEGATIVE, data >= 128)
                       n3 == SetFlag(n2, ZERO, data = 0)
                   IN Bind(IF acc THEN [n3 EXCEPT !.cpu.A = data] ELSE write(n3, ra.addr, data),
                           LAMBDA n4 :
                               IF ~Running(n4) THEN n4
                               ELSE [n4 EXCEPT !.cpu.pc_skip = ra.pc_skip]))))

\* op_transfer_a (cpu.rs:542-550): the value `from` moves to register `to`
op_transfer_a(m, from, to, txs) ==
    [(IF txs THEN m ELSE SetZN(m, from)) EXCEPT !.cpu.pc_skip = 1, !.cpu[to] = from]

\* op_compare (cpu.rs:553-570)
op_compare(m, lhs, mode) ==
    WithOperand(m, mode, LAMBDA n, ra, rhs :
        LET n1 == SetFlag(n, CARRY, lhs >= rhs)
            n2 == SetFlag(n1, ZERO, lhs = rhs)
            n3 == SetFlag(n2, NEGATIVE, WrapSub(lhs, rhs, 8) >= 128)
        IN PageCrossPenalty(n3, mode, ra.page_cross))

\* `self.SP -= 1`
DecSP(m) ==
    IF ~Running(m) THEN m
    ELSE IF Unf(m, m.cpu.SP, 1) THEN Panic(m)
    ELSE [m EXCEPT !.cpu.SP = WrapSub(@, 1, 8)]

\* `self.SP += 1`
IncSP(m) ==
    IF ~Running(m) THEN m
    ELSE IF Ovf(m, m.cpu.SP + 1, 8) THEN Panic(m)
    ELSE [m EXCEPT !.cpu.SP = (@ + 1) % 256]

StackAddr(m) == m.cpu.SP + 256

\* op_stack_push (cpu.rs:573-582)
op_stack_push(m, status) ==
    LET data == IF status
                THEN SetBit(SetBit(m.cpu.status, BREAK_LOW, 1), BREAK_HIGH, 1)
                ELSE m.cpu.A
    IN Bind(DecSP(write(m, StackAddr(m), data)), LAMBDA m1 :
           IF Running(m1) THEN [m1 EXCEPT !.cpu.pc_skip = 1] ELSE m1)

\* op_stack_pull (cpu.rs:584-595): gives [m, v]
op_stack_pull(m, status) ==
    Bind(IncSP(m), LAMBDA m1 :
    Bind(IF Running(m1) THEN [m1 EXCEPT !.cpu.pc_skip = 1] ELSE m1, LAMBDA m2 :
    Bind(read_mut(m2, StackAddr(m2)), LAMBDA rd :
        IF ~Running(rd.m) \/ status THEN rd
        ELSE [m |-> SetZN(rd.m, rd.v), v |-> rd.v])))

\* `self.PC += k`
AddPC(m, k) ==
    IF ~Running(m) THEN m
    ELSE IF Ovf(m, m.cpu.PC + k, 16) THEN Panic(m)
    ELSE [m EXCEPT !.cpu.PC = (@ + k) % 65536]

\* cpu.rs:623-627 : `if let Some(i) = self.SP.checked_sub(1) .. else return Err`
CheckedDecSP(m) ==
    IF ~Running(m) THEN m
    ELSE IF m.cpu.SP = 0 THEN Fail(m)
    ELSE [m EXCEPT !.cpu.SP = @ - 1]

\* `self.PC = self.memory.read_16_mut(addr)`
LoadPC(m, addr) ==
    IF ~Running(m) THEN m
    ELSE Bind(read_16_mut(m, addr), LAMBDA rd :
        IF ~Running(rd.m) THEN rd.m
        ELSE [rd.m EXCEPT !.cpu.PC = rd.v])

\* cpu.rs:635-660 : the third push and the vector of an interrupt
PushStatusAndVector(m, break_low, vector) ==
    IF ~Running(m) THEN m ELSE
    Bind([m EXCEPT !.cpu.status = SetBit(@, BREAK_LOW, break_low)], LAMBDA m1 :
    Bind(write(m1, StackAddr(m1), m1.cpu.status), LAMBDA m2 :
    Bind(IF Running(m2) THEN SetFlag(m2, INTERRUPT_DISABLE, TRUE) ELSE m2, LAMBDA m3 :
        LoadPC(DecSP(m3), vector))))

\* enter_subroutine (cpu.rs:598-665); inttype is "SUBROUTINE", "BRK", "IRQ" or "NMI"
enter_subroutine(m, inttype) ==
    IF ~Running(m) THEN m
    ELSE IF inttype = "IRQ" /\ Bit(m.cpu.status, INTERRUPT_DISABLE) = 1 THEN m
    ELSE Bind(CASE inttype = "BRK" -> AddPC(m, 1)
                [] inttype = "SUBROUTINE" -> AddPC(m, 2)
                [] OTHER -> m, LAMBDA m1 :
         Bind(CheckedDecSP(write(m1, StackAddr(m1), m1.cpu.PC \div 256)), LAMBDA m2 :
         Bind(CheckedDecSP(write(m2, StackAddr(m2), m2.cpu.PC % 256)), LAMBDA m3 :
         Bind(CASE inttype = "SUBROUTINE" ->
                       IF ~Running(m3) THEN m3
                       ELSE IF Unf(m3, m3.cpu.PC, 1) THEN Panic(m3)
                       ELSE LoadPC(m3, WrapSub(m3.cpu.PC, 1, 16))
                [] inttype = "BRK" -> PushStatusAndVector(m3, 1, 65530)
                [] inttype = "IRQ" -> PushStatusAndVector(m3, 0, 65534)
                [] inttype = "NMI" -> PushStatusAndVector(m3, 0, 65530), LAMBDA m4 :
             IF Running(m4) THEN [m4 EXCEPT !.cpu.pc_skip = 0] ELSE m4))))

\* cpu.rs:675-676 and PLP at cpu.rs:208 : StatusRegister::from_bits_truncate
\* of the pulled byte; all eight bits are flags, so nothing is dropped
PullStatus(m) ==
    Bind(IncSP(m), LAMBDA m1 :
        IF ~Running(m1) THEN m1
        ELSE Bind(read_mut(m1, StackAddr(m1)), LAMBDA rd :
            IF ~Running(rd.m) THEN rd.m
            ELSE [rd.m EXCEPT !.cpu.status = rd.v]))

\* leave_subroutine (cpu.rs:668-699)
leave_subroutine(m, inttype) ==
    Bind(IF inttype \in {"IRQ", "BRK", "NMI"} THEN PullStatus(m) ELSE m, LAMBDA m1 :
    Bind(IncSP(m1), LAMBDA m2 :
    Bind(read_mut(m2, StackAddr(m2)), LAMBDA lo :
    Bind(IncSP(lo.m), LAMBDA m3 :
    Bind(read_mut(m3, StackAddr(m3)), LAMBDA hi :
        LET pc == lo.v + 256 * hi.v
            plus == IF inttype \in {"BRK", "SUBROUTINE"} THEN 1 ELSE 0
        IN IF ~Running(hi.m) THEN hi.m
           ELSE IF Ovf(m, pc + plus, 16) THEN Panic(hi.m)
           ELSE [hi.m EXCEPT !.cpu.PC = (pc + plus) % 65536, !.cpu.pc_skip = 0])))))

\* a reset that takes the NMI vector
reset_nmi(m) ==
    LoadPC(SetFlag(SetFlag(m, INTERRUPT_DISABLE, TRUE), BREAK_HIGH, TRUE), 65530)

\* reset (cpu.rs:702-706)
reset(m) ==
    LoadPC(SetFlag(SetFlag(m, INTERRUPT_DISABLE, TRUE), BREAK_HIGH, TRUE), 65532)

\* nmi (cpu.rs:709-712): the Result of enter_subroutine is dropped
nmi(m) ==
    Bind(enter_subroutine([m EXCEPT !.cpu.wait_cycles = 6], "NMI"), LAMBDA m1 :
        IF m1.res = "Err" THEN [m1 EXCEPT !.res = "Ok"] ELSE m1)

\* a DMA cycle that hands write_poam the byte's address plus one
DmaTick_off(m) ==
    LET rd == read(m, m.cpu.next_dma_addr % 65536)
        m1 == write_poam(m, (m.cpu.next_dma_addr + 1) % 256, rd.v)
    IN IF ~rd.ok THEN Panic(m)
       ELSE [m1 EXCEPT !.cpu.dma_halt = IF m.cpu.next_dma_addr % 256 = 255 THEN FALSE ELSE @,
                       !.cpu.next_dma_addr = @ + 1]

\* cpu.rs:131-142 : one cycle of the OAM DMA stall
DmaTick(m) ==
    LET rd == read(m, m.cpu.next_dma_addr % 65536)
        m1 == write_poam(m, m.cpu.next_dma_addr % 256, rd.v)
    IN IF ~rd.ok THEN Panic(m)
       ELSE [m1 EXCEPT !.cpu.dma_halt = IF m.cpu.next_dma_addr % 256 = 255 THEN FALSE ELSE @,
                       !.cpu.next_dma_addr = @ + 1]

\* cpu.rs:145-148
NmiCheck(m) ==
    IF m.cpu.do_nmi
    THEN Bind(nmi(m), LAMBDA m1 :
             IF Running(m1) THEN [m1 EXCEPT !.cpu.do_nmi = FALSE] ELSE m1)
    ELSE m

\* cpu.rs:169-227 : the execute stage
Execute(m, instr) ==
    LET mn == instr.mnemonic
        mode == instr.mode
        Flag(f, b) == [SetFlag(m, f, b) EXCEPT !.cpu.pc_skip = 1]
    IN CASE mn = "ADC" -> op_arithmetic(m, mode, TRUE)
         [] mn = "AND" -> op_bitwise(m, mode, "AND")
         [] mn = "ASL" -> op_rotate(m, mode, TRUE, TRUE)
         [] mn = "BCC" -> op_branch(m, CARRY, FALSE, mode)
         [] mn = "BCS" -> op_branch(m, CARRY, TRUE, mode)
         [] mn = "BEQ" -> op_branch(m, ZERO, TRUE, mode)
         [] mn = "BIT" -> op_bit(m, mode)
         [] mn = "BMI" -> op_branch(m, NEGATIVE, TRUE, mode)
         [] mn = "BNE" -> op_branch(m, ZERO, FALSE, mode)
         [] mn = "BPL" -> op_branch(m, NEGATIVE, FALSE, mode)
         [] mn = "BRK" -> enter_subroutine(m, "BRK")
         [] mn = "BVC" -> op_branch(m, OVERFLOW, FALSE, mode)
         [] mn = "BVS" -> op_branch(m, OVERFLOW, TRUE, mode)
         [] mn = "CLC" -> Flag(CARRY, FALSE)
         [] mn = "CLD" -> Flag(DECIMAL_MODE, FALSE)
         [] mn = "CLI" -> Flag(INTERRUPT_DISABLE, FALSE)
         [] mn = "CLV" -> Flag(OVERFLOW, FALSE)
         [] mn = "CMP" -> op_compare(m, m.cpu.A, mode)
         [] mn = "CPX" -> op_compare(m, m.cpu.X, mode)
         [] mn = "CPY" -> op_compare(m, m.cpu.Y, mode)
         [] mn = "DEC" -> op_incdec_addr(m, FALSE, mode)
         [] mn = "DEX" -> op_incdec(m, "X", FALSE)
         [] mn = "DEY" -> op_incdec(m, "Y", FALSE)
         [] mn = "EOR" -> op_bitwise(m, mode, "EOR")
         [] mn = "INC" -> op_incdec_addr(m, TRUE, mode)
         [] mn = "INX" -> op_incdec(m, "X", TRUE)
         [] mn = "INY" -> op_incdec(m, "Y", TRUE)
         [] mn = "JMP" -> op_jump(m, mode)
         [] mn = "JSR" -> enter_subroutine(m, "SUBROUTINE")
         [] mn = "LDA" -> op_load(m, mode, "A")
         [] mn = "LDX" -> op_load(m, mode, "X")
         [] mn = "LDY" -> op_load(m, mode, "Y")
         [] mn = "LSR" -> op_rotate(m, mode, FALSE, TRUE)
         [] mn = "NOP" -> [m EXCEPT !.cpu.pc_skip = 1]
         [] mn = "ORA" -> op_bitwise(m, mode, "ORA")
         [] mn = "PHA" -> op_stack_push(m, FALSE)
         [] mn = "PHP" -> op_stack_push(m, TRUE)
         [] mn = "PLA" -> Bind(op_stack_pull(m, FALSE), LAMBDA r :
                              IF Running(r.m) THEN [r.m EXCEPT !.cpu.A = r.v] ELSE r.m)
         [] mn = "PLP" -> Bind(op_stack_pull(m, TRUE), LAMBDA r :
                              IF Running(r.m) THEN [r.m EXCEPT !.cpu.status = r.v] ELSE r.m)
         [] mn = "ROL" -> op_rotate(m, mode, TRUE, FALSE)
         [] mn = "ROR" -> op_rotate(m, mode, FALSE, FALSE)
         [] mn = "RTI" -> leave_subroutine(m, "IRQ")
         [] mn = "RTS" -> leave_subroutine(m, "SUBROUTINE")
         [] mn = "SBC" -> op_arithmetic(m, mode, FALSE)
         [] mn = "SEC" -> Flag(CARRY, TRUE)
         [] mn = "SED" -> Flag(DECIMAL_MODE, TRUE)
         [] mn = "SEI" -> Flag(INTERRUPT_DISABLE, TRUE)
         [] mn = "STA" -> op_store(m, m.cpu.A, mode)
         [] mn = "STX" -> op_store(m, m.cpu.X, mode)
         [] mn = "STY" -> op_store(m, m.cpu.Y, mode)
         [] mn = "TAX" -> op_transfer_a(m, m.cpu.A, "X", FALSE)
         [] mn = "TAY" -> op_transfer_a(m, m.cpu.A, "Y", FALSE)
         [] mn = "TSX" -> op_transfer_a(m, m.cpu.SP, "X", FALSE)
         [] mn = "TXS" -> op_transfer_a(m, m.cpu.X, "SP", TRUE)
         [] mn = "TXA" -> op_transfer_a(m, m.cpu.X, "A", FALSE)
         [] mn = "TYA" -> op_transfer_a(m, m.cpu.Y, "A", FALSE)
         [] OTHER -> Panic(m)

\* a fetch that charges the whole base count
FetchExecute_whole(m) ==
    Bind(read_mut(m, m.cpu.PC), LAMBDA rd :
        IF ~Running(rd.m) THEN rd.m
        ELSE IF rd.v \notin DOMAIN LUT_6502 THEN Fail(rd.m)
        ELSE Bind(LUT_6502[rd.v], LAMBDA instr :
             Bind(Execute(rd.m, instr), LAMBDA m1 :
                 IF ~Running(m1) THEN m1
                 ELSE AddPC([m1 EXCEPT !.cpu.wait_cycles = @ + instr.cycles],
                            m1.cpu.pc_skip))))

\* cpu.rs:156-235 : fetch, decode, execute, charge the cycles, advance PC
FetchExecute(m) ==
    Bind(read_mut(m, m.cpu.PC), LAMBDA rd :
        IF ~Running(rd.m) THEN rd.m
        ELSE IF rd.v \notin DOMAIN LUT_6502 THEN Fail(rd.m)
        ELSE Bind(LUT_6502[rd.v], LAMBDA instr :
             Bind(Execute(rd.m, instr), LAMBDA m1 :
                 IF ~Running(m1) THEN m1
                 ELSE AddPC([m1 EXCEPT !.cpu.wait_cycles = @ + (instr.cycles - 1)],
                            m1.cpu.pc_skip))))

\* NESCpu::tick (cpu.rs:123-236)
tick(m) ==
    IF ~Running(m) THEN m
    ELSE IF m.cpu.dma_halt THEN DmaTick(m)
    ELSE Bind(NmiCheck(m), LAMBDA m1 :
             IF ~Running(m1) THEN m1
             ELSE IF m1.cpu.wait_cycles > 0 THEN [m1 EXCEPT !.cpu.wait_cycles = @ - 1]
             ELSE FetchExecute(m1))

(***************************************************************************)
(* Construction (NESCpu::new cpu.rs:90-121, NESPpu::new ppu.rs:172-234,    *)
(* CPUMapper000::new, load_rom and reset as main.rs:99-125 calls them).    *)
(***************************************************************************)
NESCpu_new ==
    [status |-> 0, PC |-> 0, SP |-> 0, A |-> 0, X |-> 0, Y |-> 0,
     wait_cycles |-> 0, pc_skip |-> 0, dma_halt |-> FALSE, next_dma_addr |-> 0,
     do_nmi |-> FALSE]

CPUMemory_new(prg_rom) ==
    [internal_ram |-> EmptyArr, io_registers |-> [i \in 0..23 |-> 0], joy_freeze |-> FALSE,
     prg_rom |-> prg_rom, prg_size |-> PRG_16K, prg_ram |-> EmptyArr]

\* the CHR ROM loaded is an 8 KiB bank of zeroes
NESPpu_new(mirroring) ==
    [palette |-> [i \in 0..31 |-> 0], vram |-> EmptyArr, poam |-> EmptyArr,
     soam |-> [i \in 0..31 |-> 0], write_toggle |-> FALSE, scanline |-> 261,
     vram_v |-> 0, vram_t |-> 0, vram_x |-> 0,
     ppu_ctrl |-> 0, ppu_mask |-> 0, ppu_status |-> 0, oam_address |-> 0, oam_data |-> 0,
     tick |-> 0,
     bg_pattern_shift_reg_lo |-> 0, bg_pattern_shift_reg_hi |-> 0,
     bg_attribute_shift_reg_lo |-> 0, bg_attribute_shift_reg_hi |-> 0,
     bg_pattern_next_hi |-> 0, bg_pattern_next_lo |-> 0,
     bg_attribute_next_hi |-> 0, bg_attribute_next_lo |-> 0,
     bg_next_attr |-> 0, bg_next_tile |-> 0, data_bus_next |-> 0,
     poam_data |-> 255, poam_sprite_index |-> 0, poam_sprite_byte_index |-> 0,
     soam_next_open_slot |-> 0, sprite_evaluation_substage |-> 1,
     sprite_evaluation_write_rest |-> FALSE,
     sprite_render_oam_y_coord |-> 0, sprite_render_oam_tile_number |-> 0,
     sprite_render_oam_attribute |-> 0, sprite_render_oam_x_coord |-> 0,
     sprite_pattern_shift_reg_hi |-> [i \in 0..7 |-> 0],
     sprite_pattern_shift_reg_lo |-> [i \in 0..7 |-> 8],
     sprite_attribute_latch |-> [i \in 0..7 |-> 0],
     sprite_x_position_counter |-> [i \in 0..7 |-> 0],
     frame |-> EmptyArr, frame_ready |-> FALSE,
     chr_rom |-> EmptyArr, mirroring |-> mirroring]

\* main.rs:99-125 : the machine the host loop starts with
Boot(prg_rom, mirroring, debug) ==
    reset([cpu |-> NESCpu_new, mem |-> CPUMemory_new(prg_rom), ppu |-> NESPpu_new(mirroring),
           joy1_in |-> 0, dbg |-> debug, res |-> "Ok"])

(***************************************************************************)
(* Cartridge images used as inputs: 16 KiB of PRG ROM mirrored at $8000    *)
(* and $C000, written as sparse arrays (absent bytes are $00 = BRK).       *)
(***************************************************************************)
\* the bytes `code` placed at PRG offset `at`
Place(at, code) ==
    [i \in {at + (k - 1) : k \in {j \in DOMAIN code : code[j] # 0}} |-> code[i - at + 1]]

\* the reset vector ($FFFC) points at $8000, the NMI and IRQ/BRK vectors at `handler`
Vectors(handler) ==
    Place(16378, <<handler % 256, handler \div 256, 0, 128, handler % 256, handler \div 256>>)

Lo(a) == a % 256
Hi(a) == a \div 256

LDA_IMM(v) == <<169, v>>
LDX_IMM(v) == <<162, v>>
LDY_IMM(v) == <<160, v>>
LDA_ABS(a) == <<173, Lo(a), Hi(a)>>
STA_ABS(a) == <<141, Lo(a), Hi(a)>>
STX_ABS(a) == <<142, Lo(a), Hi(a)>>
STY_ABS(a) == <<140, Lo(a), Hi(a)>>
JMP_ABS(a) == <<76, Lo(a), Hi(a)>>
TXS == <<154>>
NOP == <<234>>
RTI == <<64>>
PLP == <<40>>
PHP == <<8>>
PHA == <<72>>
BRK == <<0, 0>>
SEC == <<56>>

RECURSIVE Cat(_)
Cat(ss) == IF ss = <<>> THEN <<>> ELSE Head(ss) \o Cat(Tail(ss))

\* `code` at $8000 followed by an endless `JMP *`; `handler_code` at $8100
Rom(code, handler_code) ==
    Place(0, code \o JMP_ABS(32768 + Len(code))) @@ Place(256, handler_code) @@ Vectors(33024)

\* the address of the `JMP *` that ends Rom(code, _)
SpinAt(code) == 32768 + Len(code)

(***************************************************************************)
(* The machine as one record, and the observations kept about a run.       *)
(***************************************************************************)
M == [cpu |-> cpu, mem |-> mem, ppu |-> ppu, joy1_in |-> joy1_in, dbg |-> dbg, res |-> res]

Commit(m) ==
    /\ cpu' = m.cpu
    /\ mem' = m.mem
    /\ ppu' = m.ppu
    /\ joy1_in' = m.joy1_in
    /\ dbg' = m.dbg
    /\ res' = m.res

\* the position of a PPU in its frame, and the number of dots executed
\* between two positions less than a frame apart (the dot at scanline 0
\* tick 0 is never executed: ppu.rs:382-384)
Lin(p) == (p.scanline * 341) + p.tick

DotsBetween(p, q) ==
    LET a == Lin(p)
        b == Lin(q)
        d == IF b >= a THEN b - a ELSE (b + 89342) - a
    IN IF d = 0 THEN 0
       ELSE IF a = 0 THEN d - 1
       ELSE IF b < a /\ b > 0 THEN d - 1
       ELSE d

\* a tick that starts in this state fetches an opcode (cpu.rs:129-160)
Fetching(m) == Running(m) /\ ~m.cpu.dma_halt /\ ~m.cpu.do_nmi /\ m.cpu.wait_cycles = 0

Opcode(m) == read(m, m.cpu.PC % 65536).v

AbsOperand(m) == read(m, (m.cpu.PC + 1) % 65536).v + (256 * read(m, (m.cpu.PC + 2) % 65536).v)

\* the tick about to run is a store (STA/STX/STY absolute) to addr
StoresTo(m, addr) == Fetching(m) /\ Opcode(m) \in {141, 142, 140} /\ AbsOperand(m) = addr

StoredValue(m) ==
    IF Opcode(m) = 141 THEN m.cpu.A ELSE IF Opcode(m) = 142 THEN m.cpu.X ELSE m.cpu.Y

\* the tick about to run is LDA addr
LoadsFrom(m, addr) == Fetching(m) /\ Opcode(m) = 173 /\ AbsOperand(m) = addr

NoObs ==
    [ticks |-> 0, dots |-> 0,
     dma_seen |-> FALSE, dma_page |-> 0, dma_oam |-> 0, dma_count |-> 0, dma_fresh |-> FALSE,
     joy_strobe |-> -1, joy_latched |-> -1, joy_reads |-> <<>>,
     line_dots |-> 0, line_len |-> 0, frame_dots |-> 0, frame_len |-> 0, frames |-> 0, reads |-> 0,
     vbl_sets |-> 0, nmi_raises |-> 0, last_read |-> -1]

\* what one CPU tick taking the machine from m to m2 adds to the observations
TickObs(m, m2) ==
    LET o1 == [obs EXCEPT !.ticks = @ + 1, !.dma_fresh = FALSE]
        o2 == IF StoresTo(m, 16404) /\ Running(m2)
              THEN [o1 EXCEPT !.dma_seen = TRUE, !.dma_page = StoredValue(m),
                              !.dma_oam = m.ppu.oam_address, !.dma_count = 0]
              ELSE IF Running(m) /\ m.cpu.dma_halt /\ Running(m2)
              THEN [o1 EXCEPT !.dma_count = @ + 1, !.dma_fresh = ~m2.cpu.dma_halt]
              ELSE o1
        o3 == IF StoresTo(m, 16406) /\ StoredValue(m) % 2 = 1
              THEN [o2 EXCEPT !.joy_strobe = m.joy1_in, !.joy_latched = -1, !.joy_reads = <<>>]
              ELSE IF StoresTo(m, 16406) /\ m.mem.joy_freeze
              THEN [o2 EXCEPT !.joy_latched = IF m.joy1_in = obs.joy_strobe THEN obs.joy_strobe ELSE -1,
                              !.joy_reads = <<>>]
              ELSE IF LoadsFrom(m, 16406) /\ ~m.mem.joy_freeze /\ obs.joy_latched >= 0
              THEN [o2 EXCEPT !.joy_reads = Append(@, m2.cpu.A)]
              ELSE o2
    IN o3

(***************************************************************************)
(* The runs examined: a cartridge, the build, the host's switches and the  *)
(* host events allowed.                                                    *)
(***************************************************************************)
MaxKeyEvents == 1
MaxToggles == 1
ShortRun == 48
DmaRun == 280

\* main.rs:300-365 : the joypad bit each key drives (Right drives bit 4)
KeyBit == [Z |-> 0, X |-> 1, RShift |-> 2, Return |-> 3, Up |-> 4, Down |-> 5, Left |-> 6,
           Right |-> 4]

ProgJoy ==
    Rom(Cat(<<LDA_IMM(1), STA_ABS(16406), LDA_ABS(16406), LDA_IMM(0), STA_ABS(16406),
              LDA_ABS(16406), LDA_ABS(16406), LDA_ABS(16406), LDA_ABS(16406),
              LDA_ABS(16406), LDA_ABS(16406), LDA_ABS(16406), LDA_ABS(16406)>>), RTI)

DmaCode(oam, page, via) ==
    Cat(<<LDA_IMM(171), STA_ABS(512), LDA_IMM(205), STA_ABS(767),
          LDA_IMM(oam), STA_ABS(8195),
          IF via = "A" THEN LDA_IMM(page) \o STA_ABS(16404)
          ELSE IF via = "X" THEN LDX_IMM(page) \o STX_ABS(16404)
          ELSE LDY_IMM(page) \o STY_ABS(16404),
          SEC>>)

ProgDma(oam, page, via) == Rom(DmaCode(oam, page, via), RTI)

\* flag programs: pull a status byte nothing pushed, pull a chosen byte,
\* push and pull the live status, BRK into an RTI handler, RTI of chosen bytes
ProgPlp == Rom(PLP, RTI)

ProgPhaPlp(v) == Rom(Cat(<<LDX_IMM(255), TXS, LDA_IMM(v), PHA, PLP>>), RTI)

ProgPhpPlp == Rom(Cat(<<LDX_IMM(255), TXS, SEC, PHP, PLP>>), RTI)

ProgBrk == Rom(Cat(<<LDX_IMM(255), TXS, BRK>>), RTI)

ProgRti(v) ==
    Rom(Cat(<<LDX_IMM(255), TXS, LDA_IMM(128), PHA, LDA_IMM(16), PHA, LDA_IMM(v), PHA, RTI>>)
        \o Cat(<<NOP, NOP, NOP, NOP, NOP, NOP, NOP, NOP, NOP, NOP, NOP, NOP, NOP, NOP, NOP, NOP, NOP>>),
        RTI)

\* a program that runs into the host's breakpoint address $C293
ProgBreak ==
    Place(0, JMP_ABS(49811)) @@ Place(659, Cat(<<NOP, SEC, JMP_ABS(49813)>>)) @@ Vectors(33024)

Scenario(rom, keys, toggles, ticks) ==
    [rom |-> rom, keys |-> keys, toggles |-> toggles, ticks |-> ticks]

BootScenarios ==
    {Scenario(ProgJoy, {"Z", "X", "Right"}, 0, ShortRun)}
    \cup {Scenario(ProgDma(oam, page, "A"), {}, 0, DmaRun) : oam \in {0, 3}, page \in {128, 2, 32}}
    \cup {Scenario(ProgDma(250, 2, via), {}, 0, DmaRun) : via \in {"X", "Y"}}
    \cup {Scenario(r, {}, 0, ShortRun) :
            r \in {ProgPlp, ProgPhaPlp(255), ProgPhaPlp(0), ProgPhpPlp, ProgBrk, ProgRti(16), ProgRti(223)}}
    \cup {Scenario(ProgBreak, {"Z"}, MaxToggles, ShortRun)}

(***************************************************************************)
(* The host loop (nes-platform/src/main.rs:200-484), one action per step.  *)
(* host.pc is the loop's position: "top" is the head of an iteration,      *)
(* "events" the FPS test that ends it.  Trace output is left out.          *)
(***************************************************************************)
HostNew(sc, halted_debug) ==
    [pc |-> "top",
     cpu_mode |-> IF halted_debug THEN "SingleStep" ELSE "Continuous",
     should_step |-> FALSE, flush_from |-> "none",
     keys |-> sc.keys, toggles_left |-> sc.toggles, key_events_left |-> MaxKeyEvents,
     max_ticks |-> sc.ticks, max_dots |-> 0, phase |-> 0, accesses_left |-> 0]

InitBoot ==
    \E sc \in BootScenarios, debug \in BOOLEAN, halted_debug \in BOOLEAN :
        \E m \in {Boot(sc.rom, "Horizontal", debug)} :
           /\ cpu = m.cpu /\ mem = m.mem /\ ppu = m.ppu /\ joy1_in = m.joy1_in
           /\ dbg = m.dbg /\ res = m.res
           /\ host = HostNew(sc, halted_debug)
           /\ obs = NoObs

\* `cpu.tick()` and, on Err, the host's panic
HostTick(next_pc) ==
    /\ Running(M)
    /\ obs.ticks < host.max_ticks
    /\ \E m2 \in {tick(M)} :
          /\ Commit(m2)
          /\ obs' = TickObs(M, m2)
          /\ host' = [host EXCEPT !.pc = IF Running(m2) THEN next_pc ELSE "panicked"]

\* `ppu.ppu_tick(3)`
HostPpu(next_pc, from) ==
    /\ Running(M)
    /\ \E m2 \in {ppu_tick(M, 3)} :
          /\ Commit(m2)
          /\ obs' = [obs EXCEPT !.dots = @ + DotsBetween(ppu, m2.ppu)]
          /\ host' = [host EXCEPT !.pc = IF Running(m2) THEN next_pc ELSE "panicked",
                                  !.flush_from = from]

\* main.rs:203-215
StepTick ==
    /\ host.pc = "top" /\ host.cpu_mode = "SingleStep" /\ host.should_step
    /\ HostTick("step_ppu")

\* main.rs:216
StepPpu ==
    /\ host.pc = "step_ppu"
    /\ HostPpu("flush", "step")

\* main.rs:202-203 : single-step mode with nothing to step
StepIdle ==
    /\ host.pc = "top" /\ host.cpu_mode = "SingleStep" /\ ~host.should_step
    /\ Running(M)
    /\ host' = [host EXCEPT !.pc = "events"]
    /\ UNCHANGED <<cpu, mem, ppu, joy1_in, dbg, res, obs>>

\* main.rs:223-234
RunTick ==
    /\ host.pc = "top" /\ host.cpu_mode = "Continuous"
    /\ HostTick("run_ppu")

\* main.rs:236-239 : the dots, then the breakpoint test
RunPpu ==
    /\ host.pc = "run_ppu"
    /\ HostPpu(IF cpu.PC % 65536 = 49811 THEN "flush" ELSE "events",
               IF cpu.PC % 65536 = 49811 THEN "break" ELSE "none")

\* flush_cpu, main.rs:65-68
FlushTick ==
    /\ host.pc = "flush" /\ cpu.wait_cycles > 0
    /\ HostTick("flush_ppu")

\* a flush_cpu that ticks the CPU alone
FlushPpu_none ==
    /\ host.pc = "flush_ppu"
    /\ Running(M)
    /\ host' = [host EXCEPT !.pc = "flush"]
    /\ UNCHANGED <<cpu, mem, ppu, joy1_in, dbg, res, obs>>

\* flush_cpu, main.rs:69
FlushPpu ==
    /\ host.pc = "flush_ppu"
    /\ HostPpu("flush", host.flush_from)

\* the end of flush_cpu and what follows it: main.rs:220 and 243-244
FlushDone ==
    /\ host.pc = "flush" /\ cpu.wait_cycles = 0
    /\ Running(M)
    /\ host' = [host EXCEPT !.pc = "events", !.should_step = FALSE, !.flush_from = "none",
                            !.cpu_mode = IF host.flush_from = "break" THEN "SingleStep" ELSE @]
    /\ UNCHANGED <<cpu, mem, ppu, joy1_in, dbg, res, obs>>

\* the host events modelled: none, Alt+Quote, N, and a joypad key going down or up
HostEventSet ==
    {[kind |-> "None", key |-> "Z"], [kind |-> "StepKey", key |-> "Z"]}
    \cup (IF host.toggles_left > 0 THEN {[kind |-> "ToggleMode", key |-> "Z"]} ELSE {})
    \cup (IF host.key_events_left > 0
          THEN {[kind |-> k, key |-> key] : k \in {"KeyDown", "KeyUp"}, key \in host.keys}
          ELSE {})

\* main.rs:262-368 : one polled event
HandleEvent(ev) ==
    /\ host' = [host EXCEPT
            !.pc = "top",
            !.cpu_mode = IF ev.kind = "ToggleMode"
                         THEN (IF @ = "SingleStep" THEN "Continuous" ELSE "SingleStep") ELSE @,
            !.should_step = IF ev.kind = "StepKey" THEN TRUE ELSE @,
            !.toggles_left = IF ev.kind = "ToggleMode" THEN @ - 1 ELSE @,
            !.key_events_left = IF ev.kind \in {"KeyDown", "KeyUp"} THEN @ - 1 ELSE @]
    /\ joy1_in' = CASE ev.kind = "KeyDown" -> SetBit(joy1_in, KeyBit[ev.key], 1)
                    [] ev.kind = "KeyUp" -> SetBit(joy1_in, KeyBit[ev.key], 0)
                    [] OTHER -> joy1_in

\* main.rs:254-484 : when a frame is ready or the loop runs slower than
\* 30 iterations a second, the pending event is handled and frame_ready cleared
HostEvents ==
    /\ host.pc = "events"
    /\ Running(M)
    /\ \E slow \in BOOLEAN :
        IF ppu.frame_ready \/ slow
        THEN /\ \E ev \in HostEventSet : HandleEvent(ev)
             /\ ppu' = [ppu EXCEPT !.frame_ready = FALSE]
        ELSE /\ host' = [host EXCEPT !.pc = "top"]
             /\ UNCHANGED <<joy1_in, ppu>>
    /\ UNCHANGED <<cpu, mem, dbg, res, obs>>

(***************************************************************************)
(* Runs that meet the first vertical blank.  VBLANK is first set by the    *)
(* 82,523rd dot after power-on, i.e. during the dots that follow CPU tick   *)
(* 27,508; the runs below are taken up at the head of the host iteration   *)
(* that follows tick HandoffTick.  SpecFromBoot reaches exactly these      *)
(* states (HandoffReached).                                                *)
(***************************************************************************)
HandoffTick == 27500
NmiRun == 27540
NmiDmaRun == 27800

\* enable NMI, optionally after loading SP, then spin; the handler is RTI
NmiCode(sp, pad) ==
    Cat(<<IF sp >= 0 THEN LDX_IMM(sp) \o TXS ELSE <<>>,
          LDA_IMM(128), STA_ABS(8192),
          IF pad >= 1 THEN NOP ELSE <<>>, IF pad >= 2 THEN NOP ELSE <<>>>>)

ProgNmi(sp, pad) == Rom(NmiCode(sp, pad), RTI)

\* the number of ticks NmiCode(sp, pad) takes
NmiCodeTicks(sp, pad) == (IF sp >= 0 THEN 4 ELSE 0) + 6 + (2 * pad)

\* enable NMI, then start OAM DMA from page $80 over and over
NmiDmaCode == Cat(<<LDX_IMM(255), TXS, LDA_IMM(128), STA_ABS(8192), STA_ABS(16404), JMP_ABS(32776)>>)

ProgNmiDma == Place(0, NmiDmaCode) @@ Place(256, RTI) @@ Vectors(33024)

NmiScenarios ==
    {[rom |-> ProgNmi(sp, pad), keys |-> {}, toggles |-> 0, ticks |-> NmiRun,
      kind |-> "spin", sp |-> sp, pad |-> pad] : sp \in {-1, 1, 2, 255}, pad \in 0..2}
    \cup {[rom |-> ProgNmiDma, keys |-> {}, toggles |-> 0, ticks |-> NmiDmaRun,
           kind |-> "dma", sp |-> 255, pad |-> 0]}

\* ProgNmiDma repeats every 263 ticks after its first 10: at HandoffTick it
\* has copied this many bytes of its 105th transfer
DmaDone == ((HandoffTick - 10) % 263) - 1

\* the machine of an NMI scenario at the head of the iteration after tick HandoffTick
HandoffCpu(sc) ==
    IF sc.kind = "spin"
    THEN LET r == (HandoffTick - NmiCodeTicks(sc.sp, sc.pad)) % 3
         IN [NESCpu_new EXCEPT !.status = 164, !.A = 128,
                               !.X = IF sc.sp >= 0 THEN sc.sp ELSE 0,
                               !.SP = IF sc.sp >= 0 THEN sc.sp ELSE 0,
                               !.PC = SpinAt(NmiCode(sc.sp, sc.pad)),
                               !.pc_skip = 0,
                               !.wait_cycles = IF r = 0 THEN 0 ELSE 3 - r]
    ELSE [NESCpu_new EXCEPT !.status = 164, !.A = 128, !.X = 255, !.SP = 255,
                            !.PC = 32779, !.pc_skip = 3, !.wait_cycles = 3,
                            !.dma_halt = TRUE, !.next_dma_addr = 32768 + DmaDone]

Handoff(sc, debug) ==
    LET lin == (3 * HandoffTick) - 340
    IN Bind([Boot(sc.rom, "Horizontal", debug) EXCEPT
                    !.cpu = HandoffCpu(sc), !.ppu.ppu_ctrl = 128,
                    !.ppu.scanline = lin \div 341, !.ppu.tick = lin % 341], LAMBDA m1 :
           IF sc.kind = "spin" THEN m1
           ELSE [m1 EXCEPT !.ppu.poam = Place(0, NmiDmaCode), !.mem.io_registers[20] = 128])

HandoffObs(sc) ==
    LET o == [NoObs EXCEPT !.ticks = HandoffTick, !.dots = 3 * HandoffTick]
    IN IF sc.kind = "spin" THEN o
       ELSE [o EXCEPT !.dma_seen = TRUE, !.dma_page = 128, !.dma_count = DmaDone]

InitHandoff ==
    \E sc \in NmiScenarios, debug \in BOOLEAN :
        \E m \in {Handoff(sc, debug)} :
           /\ cpu = m.cpu /\ mem = m.mem /\ ppu = m.ppu /\ joy1_in = m.joy1_in
           /\ dbg = m.dbg /\ res = m.res
           /\ host = HostNew(sc, FALSE)
           /\ obs = HandoffObs(sc)

InitNmiBoot ==
    \E sc \in NmiScenarios, debug \in BOOLEAN :
        \E m \in {Boot(sc.rom, "Horizontal", debug)} :
           /\ cpu = m.cpu /\ mem = m.mem /\ ppu = m.ppu /\ joy1_in = m.joy1_in
           /\ dbg = m.dbg /\ res = m.res
           /\ host = [HostNew(sc, FALSE) EXCEPT !.max_ticks = HandoffTick]
           /\ obs = NoObs

\* the scenario a state belongs to, told by its cartridge
ScenarioOf == CHOOSE sc \in NmiScenarios : sc.rom = mem.prg_rom

HandoffReached ==
    (obs.ticks = HandoffTick /\ host.pc = "top" /\ ~ppu.frame_ready /\ ~host.should_step)
        => /\ M = Handoff(ScenarioOf, dbg)
           /\ obs = HandoffObs(ScenarioOf)

Next ==
    \/ StepTick
    \/ StepPpu
    \/ StepIdle
    \/ RunTick
    \/ RunPpu
    \/ FlushTick
    \/ FlushPpu
    \/ FlushDone
    \/ HostEvents

Init == InitBoot \/ InitHandoff

Spec == Init /\ [][Next]_vars

SpecFromBoot == InitNmiBoot /\ [][Next]_vars

(***************************************************************************)
(* The PPU dot by dot.  Each host iteration is one CPU tick, three dots    *)
(* and the end-of-iteration test; here the CPU's program is left open: a   *)
(* tick may read PPUSTATUS, write PPUCTRL, take a pending NMI or touch no  *)
(* PPU register.                                                           *)
(***************************************************************************)
MaxAccesses == 3
WindowDots == 720
FrameRun == 90060

\* the dot a call of ppu_dot executes (ppu.rs:382-384 moves tick 0 of scanline 0 on)
ExecTick(p) == IF p.scanline = 0 /\ p.tick = 0 THEN 1 ELSE p.tick

\* dots executed since frame_ready was last raised, for a PPU between dots
FrameDotsAt(p) == IF Lin(p) = 0 THEN 0 ELSE Lin(p) - 1

\* what one dot taking the machine from m to m2 adds to the observations
DotObs(m, m2) ==
    LET p == m.ppu
        q == m2.ppu
        wrapped == (p.scanline = 261 /\ q.scanline = 0)
    IN [obs EXCEPT
            !.nmi_raises = IF wrapped THEN 0
                           ELSE IF ~m.cpu.do_nmi /\ m2.cpu.do_nmi THEN @ + 1 ELSE @,
            !.dots = @ + 1,
            !.line_dots = IF q.scanline # p.scanline THEN 0 ELSE @ + 1,
            !.line_len = IF q.scanline # p.scanline THEN obs.line_dots + 1 ELSE @,
            !.frame_dots = IF wrapped THEN 0 ELSE @ + 1,
            !.frame_len = IF wrapped /\ obs.frames >= 1 THEN obs.frame_dots + 1 ELSE @,
            !.frames = IF wrapped THEN @ + 1 ELSE @,
            !.vbl_sets = IF wrapped THEN 0
                         ELSE IF Bit(p.ppu_status, VBLANK) = 0 /\ Bit(q.ppu_status, VBLANK) = 1
                         THEN @ + 1 ELSE @]

PpuHostNew(dots, accesses) ==
    [pc |-> "cpu", cpu_mode |-> "Continuous", should_step |-> FALSE, flush_from |-> "none",
     keys |-> {}, toggles_left |-> 0, key_events_left |-> 0,
     max_ticks |-> 0, max_dots |-> dots, phase |-> 0, accesses_left |-> accesses]

\* a PPU with rendering off that has run to (scanline, tick) of its first frame
PpuAt(m, line, dot, ctrl, status) ==
    [m EXCEPT !.ppu.scanline = line, !.ppu.tick = dot,
              !.ppu.ppu_ctrl = ctrl, !.ppu.ppu_status = status]

ObsAt(p) ==
    [NoObs EXCEPT !.dots = 341 + FrameDotsAt(p), !.ticks = (341 + FrameDotsAt(p)) \div 3,
                  !.line_dots = p.tick, !.line_len = 341, !.frame_dots = FrameDotsAt(p), !.frames = 1,
                  !.vbl_sets = IF Lin(p) > (241 * 341) + 1 THEN 1 ELSE 0,
                  !.reads = IF Lin(p) > (241 * 341) + 1 /\ Bit(p.ppu_status, VBLANK) = 0
                            THEN 1 ELSE 0,
                  !.last_read = IF Lin(p) > (241 * 341) + 1 /\ Bit(p.ppu_status, VBLANK) = 0
                                THEN 128 ELSE -1]

PpuStarts ==
    Bind(Boot(EmptyArr, "Horizontal", FALSE), LAMBDA m :
        {[m |-> m, o |-> NoObs, h |-> PpuHostNew(WindowDots, MaxAccesses)],
         [m |-> m, o |-> NoObs, h |-> PpuHostNew(FrameRun, 0)]}
        \cup {[m |-> PpuAt(m, 240, 320, ctrl, 0), o |-> ObsAt(PpuAt(m, 240, 320, ctrl, 0).ppu),
               h |-> PpuHostNew(82500 + WindowDots, MaxAccesses)] : ctrl \in {0, 128}}
        \cup {[m |-> PpuAt(m, 260, 322, ctrl, status),
               o |-> ObsAt(PpuAt(m, 260, 322, ctrl, status).ppu),
               h |-> PpuHostNew(89322 + WindowDots, MaxAccesses)] :
                 ctrl \in {0, 128}, status \in {0, 128}})

\* the run without register accesses passes through the later starts
PpuHandoffReached ==
    (host.pc = "cpu" /\ host.max_dots = FrameRun /\ obs.frames = 1) =>
        /\ (ppu.scanline = 240 /\ ppu.tick = 320) =>
                (M = PpuAt(Boot(EmptyArr, "Horizontal", dbg), 240, 320, 0, 0) /\ obs = ObsAt(ppu))
        /\ (ppu.scanline = 260 /\ ppu.tick = 322) =>
                (M = PpuAt(Boot(EmptyArr, "Horizontal", dbg), 260, 322, 0, 128) /\ obs = ObsAt(ppu))

InitPpu ==
    \E st \in PpuStarts, debug \in BOOLEAN :
        /\ cpu = st.m.cpu /\ mem = st.m.mem /\ ppu = st.m.ppu /\ joy1_in = st.m.joy1_in
        /\ dbg = debug /\ res = st.m.res
        /\ host = st.h
        /\ obs = st.o

\* one dot of `ppu_tick(3)`
PpuDot ==
    /\ host.pc = "ppu"
    /\ Running(M)
    /\ \E m2 \in {ppu_dot(M)} :
          /\ Commit(m2)
          /\ obs' = DotObs(M, m2)
          /\ host' = [host EXCEPT !.phase = (@ + 1) % 3,
                                  !.pc = IF host.phase = 2 THEN "events" ELSE "ppu"]

CpuSlot == host.pc = "cpu" /\ Running(M) /\ obs.dots < host.max_dots

\* a tick that touches no PPU register: an OAM-DMA stall, a wait cycle or
\* an instruction that works elsewhere (a pending NMI outlasts only the first)
CpuIdle ==
    /\ CpuSlot
    /\ host' = [host EXCEPT !.pc = "ppu"]
    /\ obs' = [obs EXCEPT !.ticks = @ + 1]
    /\ UNCHANGED <<cpu, mem, ppu, joy1_in, dbg, res>>

\* a tick that takes the pending NMI (cpu.rs:145-148)
CpuNmi ==
    /\ CpuSlot
    /\ cpu.do_nmi
    /\ cpu' = [cpu EXCEPT !.do_nmi = FALSE]
    /\ host' = [host EXCEPT !.pc = "ppu"]
    /\ obs' = [obs EXCEPT !.ticks = @ + 1]
    /\ UNCHANGED <<mem, ppu, joy1_in, dbg, res>>

\* a tick whose instruction reads $2002 (mem.rs:50-52)
CpuReadStatus ==
    /\ CpuSlot
    /\ ~cpu.do_nmi
    /\ host.accesses_left > 0
    /\ \E rd \in {read_mut(M, 8194)} :
          /\ Commit(rd.m)
          /\ obs' = [obs EXCEPT !.ticks = @ + 1, !.last_read = rd.v, !.reads = @ + 1]
    /\ host' = [host EXCEPT !.pc = "ppu", !.accesses_left = @ - 1]

\* a tick whose instruction writes $2000 (mem.rs:131-133)
CpuWriteCtrl ==
    /\ CpuSlot
    /\ ~cpu.do_nmi
    /\ host.accesses_left > 0
    /\ \E data \in {0, 128} : Commit(write(M, 8192, data))
    /\ obs' = [obs EXCEPT !.ticks = @ + 1]
    /\ host' = [host EXCEPT !.pc = "ppu", !.accesses_left = @ - 1]

\* main.rs:256 and 484 : a ready frame is presented and frame_ready cleared
HostFrame ==
    /\ host.pc = "events"
    /\ Running(M)
    /\ ppu' = [ppu EXCEPT !.frame_ready = FALSE]
    /\ host' = [host EXCEPT !.pc = "cpu"]
    /\ UNCHANGED <<cpu, mem, joy1_in, dbg, res, obs>>

NextPpu ==
    \/ PpuDot
    \/ CpuIdle
    \/ CpuNmi
    \/ CpuReadStatus
    \/ CpuWriteCtrl
    \/ HostFrame

SpecPpu == InitPpu /\ [][NextPpu]_vars

(***************************************************************************)
(* The properties examined.                                                *)
(***************************************************************************)
\* a step that is one CPU tick, one PPU dot, one read of $2002
TickStep == obs'.ticks = obs.ticks + 1

DotStep == obs'.dots = obs.dots + 1

ReadStep == obs'.reads = obs.reads + 1

\* C1: in every host path (continuous, single-step, flush_cpu) each CPU tick
\* is followed by exactly three PPU dots before the next tick: at every loop
\* boundary dots = 3 * ticks, and between a tick and its dots the PPU is
\* exactly one tick behind; DMA stalls, wait cycles and NMI entry included.
C1_Lockstep ==
    /\ (Running(M) /\ host.pc \in {"top", "events", "flush"}) => obs.dots = 3 * obs.ticks
    /\ (Running(M) /\ host.pc \in {"step_ppu", "run_ppu", "flush_ppu"})
            => obs.dots = 3 * (obs.ticks - 1)

\* flush_cpu has ticked the CPU through part of an OAM DMA, the PPU in step
C1_Witness ==
    /\ host.pc = "flush" /\ host.flush_from = "step"
    /\ cpu.dma_halt /\ obs.dma_count > 100
    /\ obs.dots = 3 * obs.ticks

\* what servicing an NMI leaves behind: PC high, PC low and P (B-low clear)
\* on the stack from $0100+SP downward, I set, PC from $FFFA/$FFFB
NmiServiced ==
    LET sp == cpu.SP
    IN /\ res' = "Ok"
       /\ ~cpu'.do_nmi
       /\ Get(mem'.internal_ram, 256 + sp) = cpu.PC \div 256
       /\ Get(mem'.internal_ram, 256 + ((sp + 255) % 256)) = cpu.PC % 256
       /\ Get(mem'.internal_ram, 256 + ((sp + 254) % 256)) = SetBit(cpu.status, BREAK_LOW, 0)
       /\ cpu'.SP = (sp + 253) % 256
       /\ Bit(cpu'.status, INTERRUPT_DISABLE) = 1
       /\ cpu'.PC = read_16(M, 65530).v

\* C2: an NMI request is never lost: do_nmi stays set until the first CPU
\* tick that is not an OAM-DMA stall, and that tick, whatever SP and
\* wait_cycles are, pushes PC high, PC low and P with B-low = 0, sets I,
\* loads PC from $FFFA/$FFFB and clears do_nmi.
C2_NmiNeverLost ==
    [][/\ (cpu.do_nmi /\ ~cpu'.do_nmi) => (TickStep /\ ~cpu.dma_halt)
       /\ (cpu.do_nmi /\ TickStep /\ ~cpu.dma_halt) => NmiServiced]_vars

\* the states lying after the execution of scanline 261 dot 1 and before
\* the execution of scanline 241 dot 1
BeforeVBlank(p) == Lin(p) >= (261 * 341) + 2 \/ Lin(p) <= (241 * 341) + 1

\* C3: VBLANK goes from 0 to 1 only in the dot at scanline 241 dot 1, and
\* in that dot of every frame; between the execution of scanline 261 dot 1
\* and that of scanline 241 dot 1 VBLANK is 0 and a read of $2002 returns
\* bit 7 clear, whatever register accesses the CPU interleaves.
C3_VBlankOnset ==
    /\ [](BeforeVBlank(ppu) => Bit(ppu.ppu_status, VBLANK) = 0)
    /\ [](obs.vbl_sets <= 1 /\ ((obs.frames >= 1 /\ ~BeforeVBlank(ppu)) => obs.vbl_sets = 1))
    /\ [][/\ (Bit(ppu.ppu_status, VBLANK) = 0 /\ Bit(ppu'.ppu_status, VBLANK) = 1)
                => (DotStep /\ ppu.scanline = 241 /\ ppu.tick = 1)
          /\ (DotStep /\ ppu.scanline = 241 /\ ppu.tick = 1)
                => (Bit(ppu.ppu_status, VBLANK) = 0 /\ Bit(ppu'.ppu_status, VBLANK) = 1)
          /\ (ReadStep /\ BeforeVBlank(ppu)) => obs'.last_read < 128]_vars

\* the CPU has read $2002 before the blank and seen bit 7 clear; the dot at
\* scanline 241 dot 1 has then set VBLANK
C3_Witness ==
    /\ ppu.scanline = 241 /\ ppu.tick = 2
    /\ Bit(ppu.ppu_status, VBLANK) = 1
    /\ obs.reads > 0 /\ obs.last_read >= 0 /\ obs.last_read < 128

\* C4: a PPU dot changes no CPU state other than do_nmi, and do_nmi is set
\* only by the dot at scanline 241 dot 1 with PPUCTRL bit 7 set at that
\* dot: at most once a frame, never with NMI disabled at that dot, and not
\* by a PPUCTRL write that enables NMI while VBLANK is already set.
C4_NmiRaise ==
    /\ [](obs.nmi_raises <= 1)
    /\ [][/\ DotStep => (/\ cpu' = [cpu EXCEPT !.do_nmi = cpu'.do_nmi]
                         /\ mem' = mem
                         /\ joy1_in' = joy1_in)
          /\ (~cpu.do_nmi /\ cpu'.do_nmi)
                => (/\ DotStep
                    /\ ppu.scanline = 241 /\ ppu.tick = 1
                    /\ Bit(ppu.ppu_ctrl, NMI_ENABLED) = 1)]_vars

\* the dot at scanline 241 dot 1 has just requested the NMI
C4_Witness ==
    /\ cpu.do_nmi /\ obs.nmi_raises = 1
    /\ ppu.scanline = 241 /\ ppu.tick = 2
    /\ Bit(ppu.ppu_ctrl, NMI_ENABLED) = 1

\* an OAM DMA has been started and has cycles left
DmaInProgress == obs.dma_seen /\ obs.dma_count < 256

\* what one DMA cycle does: one byte, in ascending order, nothing else
DmaCycle ==
    /\ res' = "Ok"
    /\ cpu' = [cpu EXCEPT !.next_dma_addr = (256 * obs.dma_page) + obs.dma_count + 1,
                          !.dma_halt = (obs.dma_count + 1 < 256)]
    /\ cpu.next_dma_addr = (256 * obs.dma_page) + obs.dma_count
    /\ mem' = mem
    /\ \E a \in 0..255 :
            ppu' = [ppu EXCEPT !.poam = Put(@, a, read(M, (256 * obs.dma_page) + obs.dma_count).v)]

\* C5: after a store of p to $4014, dma_halt is set with next_dma_addr =
\* p<<8 and exactly the next 256 CPU ticks are DMA ticks: each copies the
\* one byte at (p<<8)+i, i ascending, into OAM, fetches no opcode, changes
\* no register or flag and leaves wait_cycles alone; dma_halt is clear
\* after the 256th and only then does the CPU fetch again.
C5_DmaStall ==
    [][TickStep =>
        /\ (StoresTo(M, 16404) /\ res' = "Ok")
                => (cpu'.dma_halt /\ cpu'.next_dma_addr = 256 * StoredValue(M))
        /\ DmaInProgress => DmaCycle
        /\ (obs.dma_seen /\ obs.dma_count = 256) => ~cpu.dma_halt]_vars

C7_FrameLength ==
    /\ obs.line_len \in {0, 341}
    /\ obs.frame_len \in {0, 89342}

\* C8: between dots 0 <= dot <= 340 and 0 <= scanline <= 261; the dot
\* counter goes from 340 to 0 while the scanline advances by one, the
\* scanline goes from 261 to 0, and that wrap is the only event that
\* raises frame_ready.
C8_Counters ==
    /\ [](ppu.tick \in 0..340 /\ ppu.scanline \in 0..261)
    /\ [][/\ DotStep =>
                IF ppu.tick = 340
                THEN ppu'.tick = 0 /\ ppu'.scanline = (ppu.scanline + 1) % 262
                ELSE ppu'.tick = ExecTick(ppu) + 1 /\ ppu'.scanline = ppu.scanline
          /\ (~ppu.frame_ready /\ ppu'.frame_ready)
                => (DotStep /\ ppu.scanline = 261 /\ ppu'.scanline = 0)
          /\ (DotStep /\ ppu.scanline = 261 /\ ppu'.scanline = 0) => ppu'.frame_ready]_vars

\* the scanline has wrapped from 261 to 0 for the second time and raised frame_ready
C8_Witness ==
    /\ ppu.frame_ready /\ ppu.scanline = 0 /\ ppu.tick = 0
    /\ obs.frames = 2

\* C9: after $4016 is written with bit 0 = 1 and then 0, the next eight
\* reads of $4016 return bits 0..7 of the bitmap the host had at the
\* strobe, even if the host changes its bitmap before the reads.
C9_LatchedReads ==
    obs.joy_latched >= 0 =>
        \A i \in 1..Len(obs.joy_reads) :
            i <= 8 => obs.joy_reads[i] = Bit(obs.joy_latched, i - 1)

\* C10: after reset the live status register always has B-high (bit 5) = 1
\* and B-low (bit 4) = 0, whatever executes and whatever PLP or RTI pull.
C10_BreakBits ==
    Bit(cpu.status, BREAK_HIGH) = 1 /\ Bit(cpu.status, BREAK_LOW) = 0

(***************************************************************************)
(* The CPU alone: a cartridge is booted and NESCpu::tick is called over    *)
(* and over, as the host does (main.rs:214, 232); the programs used touch  *)
(* no PPU register, so the dots between the ticks change nothing they see. *)
(* obs keeps the opcodes of the last two instructions fetched and the      *)
(* registers each of them started from.                                    *)
(***************************************************************************)
CpuRun == 40

PLA == <<104>>

JSR_ABS(a) == <<32, Lo(a), Hi(a)>>

\* load SP, P and A with chosen values (P by pulling a pushed byte), then run `code`
WithRegisters(sp, p, a, code) ==
    Rom(Cat(<<LDX_IMM(sp), TXS, LDA_IMM(p), PHA, LDA_IMM(a), PLP>>) \o code, RTI)

\* PHA; PLA and PHP; PLP from chosen registers
RoundTripProgs ==
    {WithRegisters(sp, p, a, pair) :
        sp \in {1, 2, 255}, p \in {36, 32, 239, 52}, a \in {0, 1, 128, 255},
        pair \in {PHA \o PLA, PHP \o PLP}}

\* pushes met with a stack pointer of 0, 1 or 2: straight after reset
\* (SP = 0), or after TXS
PushProgs ==
    {Rom(code, RTI) : code \in {PHA, PHP, BRK, JSR_ABS(32784)}}
    \cup {Rom(Cat(<<LDX_IMM(sp), TXS, code>>), RTI) :
            sp \in {1, 2, 3}, code \in {PHA, PHP, BRK, JSR_ABS(32784), PHA \o PHA}}

CpuProgs == RoundTripProgs \cup PushProgs

NoCpuObs ==
    [ticks |-> 0, last_op |-> -1, prev_op |-> -1, before1 |-> NESCpu_new, before2 |-> NESCpu_new,
     fetched_at |-> 0]

\* what one CPU tick that starts in m adds to the observations
CpuTickObs(m) ==
    IF Fetching(m)
    THEN [obs EXCEPT !.ticks = @ + 1, !.prev_op = obs.last_op, !.last_op = Opcode(m),
                     !.before2 = obs.before1, !.before1 = m.cpu, !.fetched_at = obs.ticks]
    ELSE [obs EXCEPT !.ticks = @ + 1]

InitCpu ==
    \E rom \in CpuProgs, debug \in BOOLEAN :
        \E m \in {Boot(rom, "Horizontal", debug)} :
           /\ cpu = m.cpu /\ mem = m.mem /\ ppu = m.ppu /\ joy1_in = m.joy1_in
           /\ dbg = m.dbg /\ res = m.res
           /\ host = [PpuHostNew(0, 0) EXCEPT !.max_ticks = CpuRun]
           /\ obs = NoCpuObs

\* `cpu.tick()`
CpuTick ==
    /\ host.pc = "cpu"
    /\ Running(M)
    /\ obs.ticks < host.max_ticks
    /\ \E m2 \in {tick(M)} :
          /\ Commit(m2)
          /\ obs' = CpuTickObs(M)
          /\ host' = [host EXCEPT !.pc = IF Running(m2) THEN "cpu" ELSE "panicked"]

NextCpu == CpuTick

SpecCpu == InitCpu /\ [][NextCpu]_vars

\* the instruction just executed has opcode `second`, the one before it
\* `first`, and the first started with SP >= 1
StackPair(first, second) ==
    /\ Running(M)
    /\ obs.prev_op = first /\ obs.last_op = second
    /\ obs.before2.SP >= 1

FlagsKept(flags, p, q) == \A f \in flags : Bit(p, f) = Bit(q, f)

\* PHA; PLA leaves A, X, Y, SP and C, I, D, V alone and sets Z and N from A
PhaPlaLaw ==
    StackPair(72, 104) =>
        /\ cpu.A = obs.before2.A /\ cpu.X = obs.before2.X /\ cpu.Y = obs.before2.Y
        /\ cpu.SP = obs.before2.SP
        /\ FlagsKept({CARRY, INTERRUPT_DISABLE, DECIMAL_MODE, OVERFLOW},
                     cpu.status, obs.before2.status)
        /\ Bit(cpu.status, ZERO) = B2N(cpu.A = 0)
        /\ Bit(cpu.status, NEGATIVE) = B2N(cpu.A >= 128)

\* PHP; PLP leaves SP and the whole live status register as they were, and
\* the byte pushed has B-low = B-high = 1
PhpPlpLaw ==
    StackPair(8, 40) =>
        /\ cpu.SP = obs.before2.SP
        /\ cpu.status = obs.before2.status
        /\ Bit(Get(mem.internal_ram, 256 + obs.before2.SP), BREAK_LOW) = 1
        /\ Bit(Get(mem.internal_ram, 256 + obs.before2.SP), BREAK_HIGH) = 1

\* C11: for every A, P and SP >= 1, PHA; PLA leaves A, X, Y, SP and the
\* flags C, I, D, V unchanged and sets Z and N from A; PHP; PLP leaves SP
\* unchanged and restores every bit of the live status register (B-low
\* still 0, B-high still 1), the pushed byte having B-low = B-high = 1.
C11_StackRoundTrip == PhaPlaLaw /\ PhpPlpLaw

\* the bytes an instruction pushes: PHA and PHP one, JSR two, BRK three
PushCount(op) ==
    CASE op \in {72, 8} -> 1
      [] op = 32 -> 2
      [] op = 0 -> 3
      [] OTHER -> 0

\* the tick about to run pushes more bytes than SP has room for: one of
\* the pushes would take SP below 0
PushUnderflows ==
    \/ Fetching(M) /\ cpu.SP < PushCount(Opcode(M))
    \/ Running(M) /\ ~cpu.dma_halt /\ cpu.do_nmi /\ cpu.SP < 3

\* C12: whenever a push would decrement SP below 0 (JSR, BRK, PHA, PHP or
\* NMI entry) the tick returns the stack-underflow error to the host: SP
\* does not wrap to $FF, the tick does not abort otherwise, and the error
\* is not discarded.
C12_StackUnderflow ==
    [][(TickStep /\ PushUnderflows) => res' = "Err"]_vars


(***************************************************************************)
(* The PPU rendering.  A program fills part of OAM through OAMADDR and     *)
(* OAMDATA, writes PPUMASK and spins; the host loop runs it in continuous  *)
(* mode: one CPU tick, three dots, the end-of-iteration frame test.        *)
(***************************************************************************)
RenderDots == 3300

\* OAMADDR = first, `count` writes of v to OAMDATA, then PPUMASK = mask
RenderCode(first, count, v, mask) ==
    Cat(<<LDA_IMM(first), STA_ABS(8195), LDA_IMM(v)>>)
    \o Cat([k \in 1..count |-> STA_ABS(8196)])
    \o Cat(<<LDA_IMM(mask), STA_ABS(8193)>>)

\* an OAM page in ROM at $8200: sprite 8 has Y = 5, every other byte is $F0
LoneSpritePage == [k \in 1..256 |-> IF k = 33 THEN 5 ELSE 240]

\* OAM DMA from page $82, then PPUMASK = $18
LoneSpriteProg ==
    Rom(Cat(<<LDA_IMM(130), STA_ABS(16404), LDA_IMM(24), STA_ABS(8193)>>), RTI)
        @@ Place(512, LoneSpritePage)

\* PPUADDR = $0000, the low plane of tile 0 filled with $FF through PPUDATA
\* (the high plane stays $00), sprite 0 = (Y 0, tile 0, attribute 0, X 3), then PPUMASK = $1E:
\* the nametables hold tile 0 everywhere
SolidSpriteProg ==
    Rom(Cat(<<LDA_IMM(0), STA_ABS(8198), STA_ABS(8198), LDA_IMM(255)>>) \o Cat([k \in 1..8 |-> STA_ABS(8199)])
        \o Cat(<<LDX_IMM(0), STX_ABS(8196), STX_ABS(8196), STX_ABS(8196),
                 LDA_IMM(3), STA_ABS(8196), LDA_IMM(30), STA_ABS(8193)>>), RTI)

RenderProgs ==
    {Rom(RenderCode(oam[1], oam[2], oam[3], mask), RTI) :
        oam \in {<<0, 0, 0>>, <<252, 4, 8>>, <<252, 3, 8>>, <<0, 1, 250>>, <<0, 4, 1>>},
        mask \in {24, 8}}
    \cup {LoneSpriteProg, SolidSpriteProg}

InitRender ==
    \E rom \in RenderProgs, debug \in BOOLEAN :
        \E m \in {Boot(rom, "Horizontal", debug)} :
           /\ cpu = m.cpu /\ mem = m.mem /\ ppu = m.ppu /\ joy1_in = m.joy1_in
           /\ dbg = debug /\ res = m.res
           /\ host = PpuHostNew(RenderDots, 0)
           /\ obs = NoObs

\* main.rs:232 : `tick()` of the continuous branch
RenderTick ==
    /\ CpuSlot
    /\ \E m2 \in {tick(M)} :
          /\ Commit(m2)
          /\ obs' = [obs EXCEPT !.ticks = @ + 1]
          /\ host' = [host EXCEPT !.pc = IF Running(m2) THEN "ppu" ELSE "panicked"]

NextRender ==
    \/ RenderTick
    \/ PpuDot
    \/ HostFrame

SpecRender == InitRender /\ [][NextRender]_vars

\* C13: a PPU dot never fails: whatever OAM, the nametables, the palette and
\* the registers hold, every dot executed leaves the machine running (no
\* index out of range, no arithmetic abort).
C13_PpuTickTotal == [][DotStep => res' = "Ok"]_vars


(***************************************************************************)
(* The buses.  A program stores one byte through the CPU bus (into RAM,    *)
(* the I/O window, the cartridge window) or through PPUADDR and PPUDATA    *)
(* (into the nametables, their upper window, the palette) and spins; the   *)
(* cartridge is a 16 KiB or a 32 KiB image with either mirroring.          *)
(***************************************************************************)
BusDots == 60
PRG_32K == 32768

\* a 32 KiB image: `code` at $8000 and `JMP *`, a marker byte in the upper
\* half, RTI at $8100, the vectors at the end of the image
Rom32(code) ==
    Place(0, code \o JMP_ABS(32768 + Len(code))) @@ Place(256, RTI) @@ Place(16389, <<77>>)
    @@ Place(32762, <<0, 129, 0, 128, 0, 129>>)

\* load_rom of an image of `size` bytes, then reset (main.rs:117-120)
BootSized(prg_rom, size, mirroring, debug) ==
    reset([cpu |-> NESCpu_new, mem |-> [CPUMemory_new(prg_rom) EXCEPT !.prg_size = size],
           ppu |-> NESPpu_new(mirroring), joy1_in |-> 0, dbg |-> debug, res |-> "Ok"])

PokeHi == {32, 35, 36, 40, 44, 48, 52, 56, 60, 62, 63}
PokeLo == {0, 4, 8, 12, 16, 20, 24, 28, 255}
PokeBytes == {127, 21}

\* the PPU address hi:lo through PPUADDR, then v through PPUDATA
PpuPoke(hi, lo, v) ==
    Cat(<<LDA_IMM(hi), STA_ABS(8198), LDA_IMM(lo), STA_ABS(8198), LDA_IMM(v), STA_ABS(8199)>>)

CpuPokeAddrs ==
    {x + k * 2048 : x \in {0, 767, 2047}, k \in 0..3}
    \cup {16384, 16405, 16406, 16407, 16416, 24575, 24576, 32767, 32768, 49157, 65535}

CpuPoke(a, v) == LDA_IMM(v) \o STA_ABS(a)

\* an image of `size` bytes, all $00 but the last six: AB CD 34 12 78 56
ResetImage(size) == Place(size - 6, <<171, 205, 52, 18, 120, 86>>)

BusScenarios ==
    {[rom |-> Rom(PpuPoke(hi, lo, v), RTI), size |-> PRG_16K, mirroring |-> mi] :
        hi \in PokeHi, lo \in PokeLo, v \in PokeBytes, mi \in {"Horizontal", "Vertical"}}
    \cup {[rom |-> Rom(CpuPoke(a, v), RTI), size |-> PRG_16K, mirroring |-> "Horizontal"] :
            a \in CpuPokeAddrs, v \in PokeBytes}
    \cup {[rom |-> Rom32(CpuPoke(a, v)), size |-> PRG_32K, mirroring |-> "Vertical"] :
            a \in CpuPokeAddrs, v \in PokeBytes}
    \cup {[rom |-> ResetImage(size), size |-> size, mirroring |-> "Horizontal"] :
            size \in {PRG_16K, PRG_32K}}

InitBus ==
    \E sc \in BusScenarios, debug \in BOOLEAN :
        \E m \in {BootSized(sc.rom, sc.size, sc.mirroring, debug)} :
           /\ cpu = m.cpu /\ mem = m.mem /\ ppu = m.ppu /\ joy1_in = m.joy1_in
           /\ dbg = debug /\ res = m.res
           /\ host = PpuHostNew(BusDots, 0)
           /\ obs = NoObs

SpecBus == InitBus /\ [][NextRender]_vars

\* the machine after the step
MN == [cpu |-> cpu', mem |-> mem', ppu |-> ppu', joy1_in |-> joy1_in', dbg |-> dbg', res |-> res']

\* the step is the tick of a store to the CPU address a that returns
CpuStore(a) == TickStep /\ StoresTo(M, a) /\ res' = "Ok"

\* the step is the tick of a store to PPUDATA with the VRAM address at a
PpuStore(a) == CpuStore(8199) /\ ppu.vram_v % 16384 = a

\* the state follows a store (STA absolute) to the CPU address a
JustStored(a) ==
    /\ res = "Ok" /\ cpu.PC >= 32771
    /\ read(M, cpu.PC - 3).v = 141
    /\ read(M, cpu.PC - 2).v + 256 * read(M, cpu.PC - 1).v = a


PaletteAliases == {<<16144, 16128>>, <<16148, 16132>>, <<16152, 16136>>, <<16156, 16140>>}

\* reads of p and q agree
AliasReadsAgree(m) ==
    \A pq \in PaletteAliases : ppu_read(m, pq[1]) = ppu_read(m, pq[2])

\* a PPUDATA write to a is returned, masked to 6 bits, by reads of p and of q
AliasWriteLaw(a, pq) ==
    PpuStore(a) =>
        /\ ppu_read(MN, pq[1]).v = StoredValue(M) % 64
        /\ ppu_read(MN, pq[2]).v = StoredValue(M) % 64

\* C14: palette aliasing holds for reads and writes: for each pair (p, q) of
\* ($3F10,$3F00), ($3F14,$3F04), ($3F18,$3F08), ($3F1C,$3F0C) a PPUDATA write
\* of v to p or to q is returned, masked to 6 bits, by later reads of p and
\* of q, and reads of p and q agree in every state.
C14_PaletteAlias ==
    [][/\ AliasReadsAgree(MN)
       /\ \A pq \in PaletteAliases : AliasWriteLaw(pq[1], pq) /\ AliasWriteLaw(pq[2], pq)]_vars


RamWindow == 0..8191

\* a store of v to the RAM address a: every b = a (mod $0800) reads v, actively
\* and silently, and cell a & $07FF is the only cell changed
RamStoreLaw(a) ==
    CpuStore(a) =>
        /\ \A b \in {(a % 2048) + k * 2048 : k \in 0..3} :
              /\ read(MN, b) = [ok |-> TRUE, v |-> StoredValue(M)]
              /\ read_mut(MN, b) = [m |-> MN, v |-> StoredValue(M)]
        /\ mem'.internal_ram = Put(mem.internal_ram, a % 2048, StoredValue(M))
        /\ \A b \in RamWindow : read(MN, b) = read(MN, b % 2048)

\* C15: internal RAM is mirrored every $0800 bytes: after write(a, v) with
\* a < $2000 a read of any b < $2000 with b = a (mod $0800), active or silent,
\* returns v, no RAM cell other than a & $07FF changes, and read(a) equals
\* read(a & $07FF).
C15_RamMirror == [][\A a \in CpuPokeAddrs \cap RamWindow : RamStoreLaw(a)]_vars

\* a store to $17FF has filled cell $07FF
C15_Witness == JustStored(6143) /\ Get(mem.internal_ram, 2047) = cpu.A /\ cpu.A = 127


\* the cartridge addresses probed: the program, the marker, the handler, the
\* vectors and both ends of each half
RomProbe ==
    (32768..32790) \cup {33024, 33025, 49150, 49151} \cup {a + 16384 : a \in (32768..32790) \cup {33024, 33025}}
    \cup (65530..65535) \cup (49146..49151)

ExpansionProbe == {16416, 16417, 20000, 24574, 24575}

\* the reads of the cartridge window in machine m
PrgReadLaw(m) ==
    Running(m) =>
        /\ m.mem.prg_size = PRG_16K =>
              \A a \in {b \in RomProbe : b >= 49152} :
                  /\ read(m, a).v = read(m, a - 16384).v
                  /\ read(m, a).v = Get(m.mem.prg_rom, a - 49152)
                  /\ read_mut(m, a).v = read(m, a).v
        /\ m.mem.prg_size = PRG_32K =>
              \A a \in RomProbe :
                  /\ read(m, a).v = Get(m.mem.prg_rom, a - 32768)
                  /\ read_mut(m, a).v = read(m, a).v
        /\ \A a \in ExpansionProbe : read(m, a).v = 0 /\ read_mut(m, a).v = 0

\* a store to PRG RAM is read back; a store to the expansion window or to
\* PRG ROM changes nothing a read returns
PrgStoreLaw(a) ==
    CpuStore(a) =>
        IF a \in 24576..32767
        THEN /\ read(MN, a).v = StoredValue(M)
             /\ read_mut(MN, a).v = StoredValue(M)
        ELSE /\ mem' = mem /\ ppu' = ppu /\ joy1_in' = joy1_in

\* C16: NROM's CPU-side map: a 16 KiB image is read at $C000..$FFFF as at
\* $8000..$BFFF (prg[a - $C000]), a 32 KiB image at $8000..$FFFF as
\* prg[a - $8000]; a byte written to $6000..$7FFF is read back; a write to
\* $4020..$5FFF or $8000..$FFFF changes no later read; $4020..$5FFF reads 0.
C16_NromMap ==
    [][/\ PrgReadLaw(M) /\ PrgReadLaw(MN)
       /\ \A a \in CpuPokeAddrs \cap (16416..65535) : PrgStoreLaw(a)]_vars

\* a 32 KiB image whose program has stored into the last PRG RAM byte
C16_Witness ==
    /\ mem.prg_size = PRG_32K /\ JustStored(32767) /\ Get(mem.prg_ram, 8191) = 127
    /\ read(M, 49157).v = 77


NameTables == 8192..12287

\* a XOR 2^n
FlipBit(a, n) == IF Bit(a, n) = 1 THEN a - Pow2(n) ELSE a + Pow2(n)

\* the nametable-RAM cell the mapper gives for a
NtCell(m, a) == PPUMapper000_read(m, a).word % 4096

\* the mapping of every nametable address, for reads and for writes
NtMapLaw(m) ==
    \A a \in NameTables :
        /\ PPUMapper000_read(m, a).kind = "Word" /\ Bit(PPUMapper000_read(m, a).word, 12) = 1
        /\ PPUMapper000_write(m, a) = PPUMapper000_read(m, a)
        /\ NtCell(m, a) < 2048
        /\ m.ppu.mirroring = "Horizontal" =>
              NtCell(m, a) = NtCell(m, FlipBit(a, 10)) /\ NtCell(m, a) # NtCell(m, FlipBit(a, 11))
        /\ m.ppu.mirroring = "Vertical" =>
              NtCell(m, a) = NtCell(m, FlipBit(a, 11)) /\ NtCell(m, a) # NtCell(m, FlipBit(a, 10))

\* a PPUDATA write to a is read back at a and at its mirror and not at the
\* address of the other nametable pair
NtStoreLaw(a) ==
    PpuStore(a) =>
        LET same == IF ppu.mirroring = "Horizontal" THEN 10 ELSE 11
            other == IF ppu.mirroring = "Horizontal" THEN 11 ELSE 10
        IN /\ ppu_read(MN, a) = [ok |-> TRUE, v |-> StoredValue(M)]
           /\ ppu_read(MN, FlipBit(a, same)) = [ok |-> TRUE, v |-> StoredValue(M)]
           /\ ppu_read(MN, FlipBit(a, other)) = ppu_read(M, FlipBit(a, other))
           /\ ppu'.vram = Put(ppu.vram, NtCell(M, a), StoredValue(M))

\* C17: every PPU address in $2000..$2FFF maps to a nametable-RAM index
\* below 2048, the same for reads and writes; under Horizontal mirroring a
\* and a XOR $0400 share a cell and a, a XOR $0800 do not; under Vertical
\* mirroring a and a XOR $0800 share a cell and a, a XOR $0400 do not.
C17_NameTables ==
    [][/\ obs.ticks = 0 => NtMapLaw(M)
       /\ \A hi \in PokeHi, lo \in PokeLo :
             (hi * 256 + lo) \in NameTables => NtStoreLaw(hi * 256 + lo)]_vars

\* under Vertical mirroring a write to $2CFF has filled cell $04FF
C17_Witness ==
    /\ ppu.mirroring = "Vertical" /\ JustStored(8199) /\ ppu.vram_v = 11520
    /\ Get(ppu.vram, 1279) = cpu.A /\ cpu.A = 21


UpperWindow == 12288..16127

\* a read of a in $3000..$3EFF equals the read of a - $1000
UpperReadLaw(m) ==
    \A hi \in PokeHi, lo \in PokeLo :
        (hi * 256 + lo) \in UpperWindow =>
            ppu_read(m, hi * 256 + lo) = ppu_read(m, (hi * 256 + lo) - 4096)

\* a PPUDATA write to a in $3000..$3EFF is read back at a - $1000
UpperStoreLaw(a) ==
    PpuStore(a) => ppu_read(MN, a - 4096) = [ok |-> TRUE, v |-> StoredValue(M)]

\* C18: PPU addresses $3000..$3EFF mirror $2000..$2EFF: a read of a returns
\* the byte a read of a - $1000 returns, and a PPUDATA write of v to a is
\* returned by a later read of a - $1000.
C18_UpperMirror ==
    [][/\ UpperReadLaw(MN)
       /\ \A hi \in PokeHi, lo \in PokeLo :
             (hi * 256 + lo) \in UpperWindow => UpperStoreLaw(hi * 256 + lo)]_vars


\* the CPU addresses outside $2000..$3FFF probed
PeekProbe ==
    CpuPokeAddrs \cup (16384..16415) \cup {8191, 24577, 49152}

\* the silent read of a returns the byte the active read returns
PeekLaw(m, a) == read(m, a).ok /\ read(m, a).v = read_mut(m, a).v

\* C19: for every address outside $2000..$3FFF the silent read returns the
\* byte an active read from the same state returns (in $4000..$4017: the
\* low bit of the controller shift register at $4016, 0 elsewhere) and,
\* being a function of the state, changes nothing.
C19_SilentRead ==
    Running(M) =>
        \A a \in PeekProbe :
            /\ PeekLaw(M, a)
            /\ a \in (16384..16407) \ {16406} => read_mut(M, a).v = 0
            /\ a = 16406 => read_mut(M, a).v = joy1_in % 2


\* the tick about to run performs NMI entry with room for its three pushes
\* (cpu.rs:145-148)
NmiEntry == Running(M) /\ ~cpu.dma_halt /\ cpu.do_nmi /\ cpu.SP >= 3

\* C20: NMI entry charges 7 cycles: the entry tick k returns without
\* decrementing wait_cycles, so that six waiting ticks k+1 .. k+6 follow it
\* and the handler's first opcode is fetched on tick k+7, as after a 7-cycle
\* instruction fetched on tick k.
C20_NmiCycles ==
    [][(TickStep /\ NmiEntry /\ res' = "Ok") =>
            /\ cpu'.wait_cycles = 6
            /\ cpu'.PC = read_16(MN, 65530).v]_vars


(***************************************************************************)
(* The instructions.  A program loads SP, A, X and Y, runs one instruction *)
(* of the table (or a jump to a branch, an indexed read, an indirect jump  *)
(* placed where the case needs it) and goes on into NOPs; the CPU is       *)
(* ticked alone.                                                           *)
(***************************************************************************)
InstrRun == 48

\* the bytes of the instruction `op` with the operand bytes lo, hi
Encode(op, lo, hi) ==
    IF LUT_6502[op].mode \in {"ABS", "ABX", "ABY", "IND"} THEN <<op, lo, hi>>
    ELSE IF LUT_6502[op].mode \in {"IMP", "ACC"} THEN <<op>>
    ELSE <<op, lo>>

\* SP = $FF, Y = 1, X = 1, A = $7F, then the instruction and two NOPs
OneInstr(op) ==
    Rom(Cat(<<LDX_IMM(255), TXS, LDY_IMM(1), LDX_IMM(1), LDA_IMM(127), Encode(op, 16, 2), NOP, NOP>>),
        RTI)

TableProgs == {OneInstr(op) : op \in DOMAIN LUT_6502}

\* LDA #$7F at $8000
FirstLoad == Rom(Cat(<<LDA_IMM(127), NOP, NOP>>), RTI)

\* a conditional branch `op` with displacement d placed at address p, reached
\* by a jump from the reset code (C = 0 and N = 1 when it is fetched)
BranchAt(p, op, d) ==
    Place(0, Cat(<<LDX_IMM(255), TXS, JMP_ABS(p)>>)) @@ Place(p - 32768, <<op, d, 234, 234>>)
        @@ Place(256, RTI) @@ Vectors(33024)

BranchSites == {33296, 33520}
BranchOps == {144, 176, 48, 16}
BranchDisps == {2, 14, 127, 128, 239, 253}
BranchProgs == {BranchAt(p, op, d) : p \in BranchSites, op \in BranchOps, d \in BranchDisps}

\* LDA #a; SEC or CLC; ADC #m or SBC #m
ArithProg(a, m, c, op) ==
    Rom(Cat(<<LDA_IMM(a), IF c = 1 THEN SEC ELSE <<24>>, <<op, m>>, NOP>>), RTI)

ArithBytes == {0, 1, 80, 127, 128, 129, 176, 255}
ArithProgs == {ArithProg(a, m, c, op) : a \in ArithBytes, m \in ArithBytes, c \in {0, 1}, op \in {105, 233}}

\* LDX #$FF; TXS; BRK with the NMI vector at $8100 and the IRQ/BRK vector at
\* $8200, an RTI behind each
BrkImage ==
    Place(0, Cat(<<LDX_IMM(255), TXS, BRK, NOP, NOP>>)) @@ Place(256, RTI) @@ Place(512, RTI)
        @@ Place(16378, <<0, 129, 0, 128, 0, 130>>)

\* the address the high byte of the pointer p of a JMP (p) is written to here
NextInPage(p) == (p - (p % 256)) + ((p + 1) % 256)

\* $40 at p, $81 behind it in the page of p, $82 at p + 1, then JMP (p)
JmpRam(p) ==
    Rom(Cat(<<LDX_IMM(255), TXS, LDA_IMM(130), STA_ABS(p + 1), LDA_IMM(129), STA_ABS(NextInPage(p)),
              LDA_IMM(64), STA_ABS(p), <<108, Lo(p), Hi(p)>>, NOP>>), RTI)

\* JMP ($FFFF): $FFFF holds $81, the high byte of the IRQ/BRK vector, $FF00 holds $82
JmpTop ==
    Rom(Cat(<<LDX_IMM(255), TXS, <<108, 255, 255>>, NOP>>), RTI) @@ Place(16128, <<130>>)

JmpProgs == {JmpRam(p) : p \in {528, 767}} \cup {JmpTop}

InstrProgs ==
    TableProgs \cup {FirstLoad} \cup BranchProgs \cup ArithProgs \cup {BrkImage} \cup JmpProgs

InitInstr ==
    \E rom \in InstrProgs, debug \in BOOLEAN :
        \E m \in {Boot(rom, "Horizontal", debug)} :
           /\ cpu = m.cpu /\ mem = m.mem /\ ppu = m.ppu /\ joy1_in = m.joy1_in
           /\ dbg = m.dbg /\ res = m.res
           /\ host = [PpuHostNew(0, 0) EXCEPT !.max_ticks = InstrRun]
           /\ obs = NoCpuObs

SpecInstr == InitInstr /\ [][NextCpu]_vars

Branches == {"BCC", "BCS", "BEQ", "BMI", "BNE", "BPL", "BVC", "BVS"}
Readers == {"LDA", "LDX", "LDY", "AND", "ORA", "EOR", "ADC", "SBC", "CMP"}

\* the flag a branch tests and the value it wants (cpu.rs:172-182)
BranchTest(mn) ==
    CASE mn = "BCC" -> <<CARRY, 0>> [] mn = "BCS" -> <<CARRY, 1>>
      [] mn = "BEQ" -> <<ZERO, 1>> [] mn = "BNE" -> <<ZERO, 0>>
      [] mn = "BMI" -> <<NEGATIVE, 1>> [] mn = "BPL" -> <<NEGATIVE, 0>>
      [] mn = "BVC" -> <<OVERFLOW, 0>> [] OTHER -> <<OVERFLOW, 1>>

BranchTaken(op, status) ==
    Bit(status, BranchTest(LUT_6502[op].mnemonic)[1]) = BranchTest(LUT_6502[op].mnemonic)[2]

\* the instruction op, run with the flags `status`, is neither a taken
\* branch nor a read in an indexed mode: nothing can add to its base count
Unpenalised(op, status) ==
    /\ op \in DOMAIN LUT_6502
    /\ LUT_6502[op].mnemonic \in Branches => ~BranchTaken(op, status)
    /\ LUT_6502[op].mnemonic \in Readers => LUT_6502[op].mode \notin {"ABX", "ABY", "IID"}

\* the step is the tick that fetches and executes an instruction
FetchStep == TickStep /\ Fetching(M) /\ res' = "Ok"

\* the step is a tick that waits
WaitStep == TickStep /\ Running(M) /\ ~cpu.dma_halt /\ ~cpu.do_nmi /\ cpu.wait_cycles > 0

\* the fetch tick of an unpenalised instruction leaves base - 1 wait cycles
BaseCharge ==
    (FetchStep /\ Unpenalised(Opcode(M), cpu.status)) =>
        cpu'.wait_cycles = LUT_6502[Opcode(M)].cycles - 1

\* a waiting tick decrements wait_cycles and does nothing else
WaitOnly ==
    WaitStep => /\ cpu' = [cpu EXCEPT !.wait_cycles = @ - 1]
                /\ mem' = mem /\ ppu' = ppu /\ joy1_in' = joy1_in /\ res' = res

\* the fetch after an unpenalised instruction comes base ticks after its fetch
NextFetch ==
    (TickStep /\ Fetching(M) /\ obs.last_op >= 0 /\ Unpenalised(obs.last_op, obs.before1.status)) =>
        obs.ticks - obs.fetched_at = LUT_6502[obs.last_op].cycles

\* LDA #v: A = v, Z and N from v, PC two further, the other registers kept
LdaImmediate ==
    (FetchStep /\ Opcode(M) = 169) =>
        LET v == read(M, cpu.PC + 1).v
        IN cpu' = [cpu EXCEPT !.A = v, !.PC = cpu.PC + 2, !.wait_cycles = 1, !.pc_skip = 2,
                              !.status = SetBit(SetBit(@, ZERO, B2N(v = 0)), NEGATIVE, B2N(v >= 128))]
           /\ mem' = mem

\* C21: an instruction of base count n that incurs no penalty occupies n
\* ticks: its effects take place on the fetch tick, each of the next n - 1
\* ticks only decrements wait_cycles and the next opcode is fetched on the
\* n-th tick after the fetch; LDA #$7F at $8000 leaves A = $7F, Z = 0,
\* N = 0, PC = $8002 and the next fetch follows 2 ticks later.
C21_BaseCycles == [][BaseCharge /\ WaitOnly /\ NextFetch /\ LdaImmediate]_vars

\* LDA #$7F has run and the following instruction is being fetched
C21_Witness ==
    /\ Fetching(M) /\ obs.last_op = 169 /\ obs.before1.PC = 32768
    /\ cpu.A = 127 /\ Bit(cpu.status, ZERO) = 0 /\ Bit(cpu.status, NEGATIVE) = 0
    /\ cpu.PC = 32770 /\ obs.ticks - obs.fetched_at = 2

(***************************************************************************)
(* Conditional branches.                                                   *)
(***************************************************************************)
Page(a) == (a % 65536) \div 256

\* the opcode and the operand byte under PC
OpAtPC == read(M, cpu.PC).v
OperandAtPC == read(M, (cpu.PC + 1) % 65536).v

BranchFetch == FetchStep /\ OpAtPC \in DOMAIN LUT_6502 /\ LUT_6502[OpAtPC].mnemonic \in Branches

\* where a branch at p with displacement byte d lands when taken
BranchLanding(p, d) == RelativeTarget((p + 2) % 65536, d)

BranchLaw(p, d, taken) ==
    IF taken
    THEN /\ cpu'.PC = BranchLanding(p, d)
         /\ cpu'.wait_cycles = 2 + B2N(Page(BranchLanding(p, d)) # Page(p + 2))
    ELSE /\ cpu'.PC = (p + 2) % 65536
         /\ cpu'.wait_cycles = 1

\* C22: a conditional branch at p with displacement d, when taken, sets PC
\* to (p + 2 + d) mod 65536 and costs its base 2 cycles plus 1, plus 1 more
\* exactly when p + 2 + d lies in another page than p + 2; when not taken it
\* sets PC to p + 2 and costs the base 2 cycles.
C22_Branch ==
    [][BranchFetch => BranchLaw(cpu.PC, OperandAtPC, BranchTaken(OpAtPC, cpu.status))]_vars

(***************************************************************************)
(* Reads and stores in the indexed addressing modes.                       *)
(***************************************************************************)
IndexedModes == {"ABX", "ABY", "IID"}
Stores == {"STA", "STX", "STY"}

IndexedFetch == FetchStep /\ OpAtPC \in DOMAIN LUT_6502 /\ LUT_6502[OpAtPC].mode \in IndexedModes

\* the base address the index is added to: the operand word, or for
\* (Indirect),Y the word held in the zero page at the operand byte
IndexedBase ==
    IF LUT_6502[OpAtPC].mode = "IID"
    THEN read(M, OperandAtPC).v + 256 * read(M, (OperandAtPC + 1) % 256).v
    ELSE read_16(M, (cpu.PC + 1) % 65536).v

IndexOf == IF LUT_6502[OpAtPC].mode = "ABX" THEN cpu.X ELSE cpu.Y

LowByteCarry == (IndexedBase % 256) + IndexOf > 255

IndexedLaw ==
    IF LUT_6502[OpAtPC].mnemonic \in Readers
    THEN /\ cpu'.wait_cycles = (LUT_6502[OpAtPC].cycles - 1) + B2N(LowByteCarry)
         /\ LUT_6502[OpAtPC].mnemonic = "LDA" =>
                cpu'.A = read(M, (IndexedBase + IndexOf) % 65536).v
    ELSE LUT_6502[OpAtPC].mnemonic \in Stores =>
             cpu'.wait_cycles = LUT_6502[OpAtPC].cycles - 1

\* C23: a read instruction in Absolute,X, Absolute,Y or (Indirect),Y mode
\* costs one cycle more than its base count exactly when adding the index
\* carries out of the low byte of the base address, wherever the instruction
\* lies; it reads (base + index) mod 65536; a store in these modes never
\* costs more than its base count.
C23_IndexedRead == [][IndexedFetch => IndexedLaw]_vars

(***************************************************************************)
(* ADC and SBC.                                                            *)
(***************************************************************************)
FlagOf(st, f) == Bit(st, f)

\* ADC #m or SBC #m is being fetched
ArithFetch == FetchStep /\ OpAtPC \in {105, 233}

AdcLaw(a, m, c) ==
    LET sum == a + m + c
        r == sum % 256
    IN /\ cpu'.A = r
       /\ FlagOf(cpu'.status, CARRY) = B2N(sum > 255)
       /\ FlagOf(cpu'.status, OVERFLOW) = B2N((a >= 128) = (m >= 128) /\ (r >= 128) # (a >= 128))
       /\ FlagOf(cpu'.status, ZERO) = B2N(r = 0)
       /\ FlagOf(cpu'.status, NEGATIVE) = r \div 128

SbcLaw(a, m, c) ==
    /\ AdcLaw(a, BitXor(m, 255), c)
    /\ cpu'.A = (256 + a - m - (1 - c)) % 256
    /\ FlagOf(cpu'.status, CARRY) = B2N(a - m - (1 - c) >= 0)

ArithInstances ==
    /\ OpAtPC = 105 /\ cpu.A = 80 /\ OperandAtPC = 80 /\ FlagOf(cpu.status, CARRY) = 0 =>
           /\ cpu'.A = 160
           /\ FlagOf(cpu'.status, NEGATIVE) = 1 /\ FlagOf(cpu'.status, OVERFLOW) = 1
           /\ FlagOf(cpu'.status, ZERO) = 0 /\ FlagOf(cpu'.status, CARRY) = 0
    /\ OpAtPC = 105 /\ cpu.A = 255 /\ OperandAtPC = 0 /\ FlagOf(cpu.status, CARRY) = 1 =>
           cpu'.A = 0 /\ FlagOf(cpu'.status, CARRY) = 1 /\ FlagOf(cpu'.status, ZERO) = 1
    /\ OpAtPC = 233 /\ cpu.A = 0 /\ OperandAtPC = 0 /\ FlagOf(cpu.status, CARRY) = 0 =>
           /\ cpu'.A = 255 /\ FlagOf(cpu'.status, CARRY) = 0
           /\ FlagOf(cpu'.status, OVERFLOW) = 0 /\ FlagOf(cpu'.status, NEGATIVE) = 1

\* C24: ADC leaves A' = (A + M + c) mod 256, C = (A + M + c > 255), V = 1
\* exactly when A and M have the same sign bit and A' the other, Z = (A' = 0)
\* and N = bit 7 of A'; SBC gives what ADC gives for M XOR $FF, that is
\* A' = (A - M - (1 - c)) mod 256 with C = 1 exactly when there is no borrow;
\* $50 + $50 gives $A0 with N, V set and Z, C clear, $FF + 0 + 1 gives 0 with
\* C, Z set, and 0 - 0 with C clear gives $FF with C, V clear and N set.
C24_Arithmetic ==
    [][ArithFetch =>
          /\ IF OpAtPC = 105 THEN AdcLaw(cpu.A, OperandAtPC, FlagOf(cpu.status, CARRY))
             ELSE SbcLaw(cpu.A, OperandAtPC, FlagOf(cpu.status, CARRY))
          /\ ArithInstances]_vars

C24_Witness ==
    /\ obs.last_op = 105 /\ obs.before1.A = 80 /\ FlagOf(obs.before1.status, CARRY) = 0
    /\ read(M, obs.before1.PC + 1).v = 80
    /\ cpu.A = 160 /\ FlagOf(cpu.status, OVERFLOW) = 1 /\ FlagOf(cpu.status, NEGATIVE) = 1
    /\ FlagOf(cpu.status, CARRY) = 0 /\ FlagOf(cpu.status, ZERO) = 0

(***************************************************************************)
(* Reset.                                                                  *)
(***************************************************************************)
\* no CPU tick has run since reset()
JustReset == obs.ticks = 0

\* C25: reset() loads PC from the little-endian word at $FFFC/$FFFD and sets
\* I and B-high; with a 16 KiB or 32 KiB NROM image whose last six bytes are
\* AB CD 34 12 78 56 it leaves PC = $1234, I = 1 and B-high = 1.
C25_Reset ==
    JustReset =>
        /\ cpu.PC = read(M, 65532).v + 256 * read(M, 65533).v
        /\ Bit(cpu.status, INTERRUPT_DISABLE) = 1
        /\ Bit(cpu.status, BREAK_HIGH) = 1
        /\ \A size \in {PRG_16K, PRG_32K} :
               mem.prg_rom = ResetImage(size) /\ mem.prg_size = size => cpu.PC = 4660

C25_Witness ==
    /\ JustReset /\ mem.prg_rom = ResetImage(PRG_32K) /\ mem.prg_size = PRG_32K
    /\ cpu.PC = 4660 /\ Bit(cpu.status, INTERRUPT_DISABLE) = 1 /\ Bit(cpu.status, BREAK_HIGH) = 1

(***************************************************************************)
(* BRK.                                                                    *)
(***************************************************************************)
BrkFetch == FetchStep /\ OpAtPC = 0 /\ cpu.SP >= 2

\* the byte the next state holds at stack slot sp
Stacked(sp) == read(MN, 256 + sp).v

BrkLaw ==
    /\ Stacked(cpu.SP) = Hi((cpu.PC + 1) % 65536)
    /\ Stacked(cpu.SP - 1) = Lo((cpu.PC + 1) % 65536)
    /\ Stacked(cpu.SP - 2) = SetBit(cpu.status, BREAK_LOW, 1)
    /\ cpu'.SP = (cpu.SP + 253) % 256
    /\ Bit(cpu'.status, INTERRUPT_DISABLE) = 1
    /\ cpu'.PC = read(M, 65534).v + 256 * read(M, 65535).v

\* C26: BRK advances PC by 1, pushes PC high, PC low and then P with
\* B-low = 1, sets I and loads PC from the IRQ/BRK vector at $FFFE/$FFFF,
\* not from the NMI vector at $FFFA/$FFFB.
C26_Brk == [][BrkFetch => BrkLaw]_vars

(***************************************************************************)
(* JMP (indirect).                                                         *)
(***************************************************************************)
\* a tick that fetches JMP (p)
IndJump == TickStep /\ Fetching(M) /\ OpAtPC = 108

Pointer == read(M, (cpu.PC + 1) % 65536).v + 256 * read(M, (cpu.PC + 2) % 65536).v

IndJumpLaw(p) ==
    /\ res' = "Ok"
    /\ cpu'.PC = read(M, p).v + 256 * read(M, (p - (p % 256)) + ((p + 1) % 256)).v

\* C27: JMP (p) takes the low byte of its target from p and the high byte
\* from (p & $FF00) | ((p + 1) & $00FF): for p = $xxFF the high byte comes
\* from $xx00, not from the next page.
C27_IndirectJump == [][IndJump => IndJumpLaw(Pointer)]_vars

(***************************************************************************)
(* Sprite overflow.                                                        *)
(***************************************************************************)
\* the sprites of primary OAM whose rows include the low byte of scanline
\* sl, which is what evaluation compares (`self.scanline as u8`): [y, y + 8)
SpritesInRange(sl) ==
    {i \in 0..63 : Get(ppu.poam, 4 * i) <= sl % 256 /\ sl % 256 < Get(ppu.poam, 4 * i) + 8}

\* a dot that sets the sprite-overflow flag
OverflowRaised ==
    /\ DotStep
    /\ Bit(ppu.ppu_status, SPRITE_OVERFLOW) = 0
    /\ Bit(ppu'.ppu_status, SPRITE_OVERFLOW) = 1

\* C28: sprite evaluation sets the sprite-overflow flag only when secondary
\* OAM already holds eight sprites in range of the scanline and a ninth
\* sprite in range is found; while fewer than eight sprites of OAM are in
\* range of every scanline, the flag stays clear.
C28_SpriteOverflow ==
    [][OverflowRaised =>
          /\ ppu.soam_next_open_slot = 8
          /\ Cardinality(SpritesInRange(ppu.scanline)) >= 9]_vars

(***************************************************************************)
(* The controller bitmap belongs to the host.                              *)
(***************************************************************************)
\* C29: no CPU tick, whatever it reads from or writes to $4016, changes the
\* host's controller bitmap joy1_in: only the host's key events change it, so
\* a button held with no event in between is reported pressed by every
\* strobe-and-read-eight sequence.
C29_HostOwnsBitmap == [][TickStep => joy1_in' = joy1_in]_vars

(***************************************************************************)
(* An NMI and the RTI that ends its handler.  The CPU runs alone; the PPU  *)
(* is reduced to the one thing it does to the CPU: with NMI enabled in     *)
(* PPUCTRL it raises do_nmi at the start of vertical blank, which falls    *)
(* between two CPU ticks anywhere in the program.                          *)
(***************************************************************************)
IntRun == 56

\* load SP, optionally pull `p` into the status register, enable NMI, then
\* change the flags step by step; the NMI handler at $8100 is a lone RTI
IntCode(sp, p) ==
    Cat(<<LDX_IMM(sp), TXS, IF p >= 0 THEN Cat(<<LDA_IMM(p), PHA, PLP>>) ELSE <<>>,
          LDA_IMM(128), STA_ABS(8192), SEC, LDA_IMM(0), <<24>>, LDA_IMM(255)>>)

IntProgs == {Rom(IntCode(sp, p), RTI) : sp \in {255, 3}, p \in {-1, 0, 36, 255}}

NoIntObs == [ticks |-> 0, raised |-> FALSE, entered |-> FALSE, taken |-> NESCpu_new]

InitInt ==
    \E rom \in IntProgs, debug \in BOOLEAN :
        \E m \in {Boot(rom, "Horizontal", debug)} :
           /\ cpu = m.cpu /\ mem = m.mem /\ ppu = m.ppu /\ joy1_in = m.joy1_in
           /\ dbg = m.dbg /\ res = m.res
           /\ host = [PpuHostNew(0, 0) EXCEPT !.max_ticks = IntRun]
           /\ obs = NoIntObs

\* ppu.rs:688-693 : the start of vertical blank, once
RaiseNmi ==
    /\ Running(M)
    /\ ~obs.raised
    /\ Bit(ppu.ppu_ctrl, NMI_ENABLED) = 1
    /\ cpu' = [cpu EXCEPT !.do_nmi = TRUE]
    /\ ppu' = [ppu EXCEPT !.ppu_status = SetBit(@, VBLANK, 1)]
    /\ obs' = [obs EXCEPT !.raised = TRUE]
    /\ UNCHANGED <<mem, joy1_in, dbg, res, host>>

\* the tick that starts in M performs NMI entry (cpu.rs:145-148)
TakesNmi == Running(M) /\ ~cpu.dma_halt /\ cpu.do_nmi

\* `cpu.tick()`; the registers at the moment an NMI is taken are kept
IntTick ==
    /\ Running(M)
    /\ obs.ticks < host.max_ticks
    /\ \E m2 \in {tick(M)} :
          /\ Commit(m2)
          /\ obs' = [obs EXCEPT !.ticks = @ + 1,
                                !.entered = @ \/ TakesNmi,
                                !.taken = IF TakesNmi THEN cpu ELSE @]
          /\ host' = [host EXCEPT !.pc = IF Running(m2) THEN "cpu" ELSE "panicked"]

NextInt == IntTick \/ RaiseNmi

SpecInt == InitInt /\ [][NextInt]_vars

\* the RTI of the handler is fetched after an NMI taken with SP >= 3
HandlerReturn ==
    FetchStep /\ obs.entered /\ obs.taken.SP >= 3 /\ cpu.PC = 33024 /\ OpAtPC = 64

ProgramFlags == {CARRY, ZERO, INTERRUPT_DISABLE, DECIMAL_MODE, OVERFLOW, NEGATIVE}

Restored ==
    /\ cpu'.PC = obs.taken.PC
    /\ cpu'.SP = obs.taken.SP
    /\ \A f \in ProgramFlags : Bit(cpu'.status, f) = Bit(obs.taken.status, f)
    /\ Bit(cpu'.status, BREAK_LOW) = 0
    /\ Bit(cpu'.status, BREAK_HIGH) = 1

\* C30: for every CPU state with SP >= 3, an NMI entry followed by RTI
\* restores PC, SP and the flags C, Z, I, D, V, N to their values at the
\* moment the NMI was taken, with B-low 0 and B-high 1: the program resumes
\* with the instruction it would have fetched next and RTI adds nothing to
\* the popped PC.
C30_NmiTransparent == [][HandlerReturn => Restored]_vars

(***************************************************************************)
(* Reads of PPUSTATUS by programs: one that renders a lone sprite and then *)
(* polls $2002 between writes of $2005, and one whose NMI handler reads    *)
(* $2002 twice at the start of vertical blank.                             *)
(***************************************************************************)
BlankDots == 150

\* OAM DMA from page $82, PPUMASK = $18, then for ever STA $2005; LDA $2002
PollProg ==
    Place(0, Cat(<<LDA_IMM(130), STA_ABS(16404), LDA_IMM(24), STA_ABS(8193),
                   STA_ABS(8197), LDA_ABS(8194), JMP_ABS(32778)>>))
        @@ Place(256, RTI) @@ Place(512, LoneSpritePage) @@ Vectors(33024)

\* NMI enabled with SP = $FF; the handler is STA $2005; LDA $2002; LDA $2002; RTI
BlankScenario ==
    [rom |-> Rom(NmiCode(255, 0), Cat(<<STA_ABS(8197), LDA_ABS(8194), LDA_ABS(8194), RTI>>)),
     kind |-> "spin", sp |-> 255, pad |-> 0]

InitStatus ==
    \E debug \in BOOLEAN :
        \/ \E m \in {Boot(PollProg, "Horizontal", debug)} :
              /\ cpu = m.cpu /\ mem = m.mem /\ ppu = m.ppu /\ joy1_in = m.joy1_in
              /\ dbg = debug /\ res = m.res
              /\ host = PpuHostNew(RenderDots, 0)
              /\ obs = NoObs
        \/ \E m \in {Handoff(BlankScenario, debug)} :
              /\ cpu = m.cpu /\ mem = m.mem /\ ppu = m.ppu /\ joy1_in = m.joy1_in
              /\ dbg = debug /\ res = m.res
              /\ host = PpuHostNew((3 * HandoffTick) + BlankDots, 0)
              /\ obs = HandoffObs(BlankScenario)

SpecStatus == InitStatus /\ [][NextRender]_vars

\* the step is the tick of LDA $2002
StatusRead == TickStep /\ LoadsFrom(M, 8194) /\ res' = "Ok"

StatusReadLaw ==
    /\ cpu'.A = ppu.ppu_status
    /\ ppu' = [ppu EXCEPT !.ppu_status = SetBit(@, VBLANK, 0), !.write_toggle = FALSE]

\* flag f of PPUSTATUS falls in this step
Falls(f) == Bit(ppu.ppu_status, f) = 1 /\ Bit(ppu'.ppu_status, f) = 0

Rises(f) == Bit(ppu.ppu_status, f) = 0 /\ Bit(ppu'.ppu_status, f) = 1

AtDot(line, dot) == DotStep /\ ppu.scanline = line /\ ppu.tick = dot

\* C31: a read of $2002 returns the status byte as it was before the read,
\* clears VBLANK and the write toggle and changes nothing else; sprite
\* overflow and sprite-0 hit fall only at dot 1 of scanline 261; VBLANK rises
\* only at dot 1 of scanline 241 and falls at every read, so at most one read
\* between two such dots returns bit 7 set.
C31_StatusRead ==
    [][/\ StatusRead => StatusReadLaw
       /\ (Falls(SPRITE_OVERFLOW) \/ Falls(SPRITE_ZERO_HIT)) => AtDot(261, 1)
       /\ Rises(VBLANK) => AtDot(241, 1)]_vars

\* the second read of the handler has returned bit 7 clear after the first
\* returned it set and the toggle, set by the STA $2005, was cleared
C31_Witness ==
    /\ mem.prg_rom = BlankScenario.rom
    /\ cpu.PC = 33033 /\ cpu.A = 0
    /\ ppu.scanline = 241 /\ Bit(ppu.ppu_status, VBLANK) = 0 /\ ~ppu.write_toggle

(***************************************************************************)
(* Programs that work the PPU registers.                                   *)
(***************************************************************************)
RegDots == 240

LDA_PPUSTATUS == LDA_ABS(8194)

\* PPUADDR = a
SetV(a) == Cat(<<LDA_IMM(Hi(a)), STA_ABS(8198), LDA_IMM(Lo(a)), STA_ABS(8198)>>)

\* PPUCTRL = ctrl; $2A below the palette at a - $1000 when a is a palette
\* address; $15 at a; then PPUADDR = a and two reads of PPUDATA
DataReadCode(a, ctrl) ==
    Cat(<<LDA_IMM(ctrl), STA_ABS(8192),
          IF a >= 16128 THEN Cat(<<SetV(a - 4096), LDA_IMM(42), STA_ABS(8199)>>) ELSE <<>>,
          SetV(a), LDA_IMM(21), STA_ABS(8199),
          SetV(a), LDA_ABS(8199), LDA_ABS(8199)>>)

DataReadProgs == {Rom(DataReadCode(a, ctrl), RTI) : a \in {9216, 8199, 16128, 16145}, ctrl \in {0, 4}}

\* $77 at poam[5], OAMADDR = 5, then LDA $2004
OamReadCode ==
    Cat(<<LDA_IMM(5), STA_ABS(8195), LDA_IMM(119), STA_ABS(8196),
          LDA_IMM(5), STA_ABS(8195), LDA_ABS(8196)>>)

WriteOnly == {8192, 8193, 8195, 8197, 8198}

\* a read of a write-only register, a read of OAMDATA, a write of PPUSTATUS
AccessProgs ==
    {Rom(LDA_ABS(a), RTI) : a \in WriteOnly}
    \cup {Rom(OamReadCode, RTI), Rom(Cat(<<LDA_IMM(1), STA_ABS(8194)>>), RTI)}

\* v = t = $2155, nametable select nt, a read of $2002, then d1 and d2 to $2005
ScrollCode(nt, d1, d2) ==
    Cat(<<SetV(8533), LDA_IMM(nt), STA_ABS(8192), LDA_PPUSTATUS,
          LDA_IMM(d1), STA_ABS(8197), LDA_IMM(d2), STA_ABS(8197)>>)

ScrollBytes == {0, 3, 4, 8, 125, 248, 255}
ScrollProgs ==
    {Rom(ScrollCode(nt, d1, d2), RTI) : nt \in {0, 3}, d1 \in ScrollBytes, d2 \in ScrollBytes}

\* hi to $2006, stores to the other writable registers and a read of $2007
\* with the toggle set, lo to $2006, then $2005 and $2006 written in turn
\* around a read of $2002
ToggleCode(hi, lo) ==
    Cat(<<LDA_PPUSTATUS, LDX_IMM(0), LDA_IMM(hi), STA_ABS(8198),
          STX_ABS(8192), STX_ABS(8193), STX_ABS(8195), STX_ABS(8196), STX_ABS(8199), LDA_ABS(8199),
          LDA_IMM(lo), STA_ABS(8198),
          STA_ABS(8197), STA_ABS(8198), STA_ABS(8198), LDA_PPUSTATUS, STA_ABS(8198), STA_ABS(8197)>>)

ToggleProgs == {Rom(ToggleCode(hi, lo), RTI) : hi \in {33, 63, 127, 255}, lo \in {0, 85, 255}}

RegProgs == DataReadProgs \cup AccessProgs \cup ScrollProgs \cup ToggleProgs

InitReg ==
    \E rom \in RegProgs, debug \in BOOLEAN :
        \E m \in {Boot(rom, "Vertical", debug)} :
           /\ cpu = m.cpu /\ mem = m.mem /\ ppu = m.ppu /\ joy1_in = m.joy1_in
           /\ dbg = debug /\ res = m.res
           /\ host = PpuHostNew(RegDots, 0)
           /\ obs = NoObs

SpecReg == InitReg /\ [][NextRender]_vars

\* the step is the tick of LDA $2007
DataRead == TickStep /\ LoadsFrom(M, 8199) /\ res' = "Ok"

\* the byte of PPU memory at address a
PpuByte(a) == ppu_read(M, a % 16384).v

DataReadLaw ==
    /\ IF ppu.vram_v % 16384 < 16128
       THEN /\ cpu'.A = ppu.data_bus_next
            /\ ppu'.data_bus_next = PpuByte(ppu.vram_v)
       ELSE /\ cpu'.A = PpuByte(ppu.vram_v)
            /\ ppu'.data_bus_next = PpuByte(ppu.vram_v - 4096)
    /\ ppu'.vram_v = ppu.vram_v + (IF Bit(ppu.ppu_ctrl, VRAM_INCREMENT) = 1 THEN 32 ELSE 1)

\* C32: a read of $2007 with v below $3F00 returns the read buffer and
\* reloads the buffer with the byte at v; with v in $3F00..$3FFF it returns
\* the palette byte at v at once and reloads the buffer with the nametable
\* byte underneath; v then grows by 1, or by 32 with PPUCTRL bit 2 set.
C32_DataRead == [][DataRead => DataReadLaw]_vars

\* the step is the tick of a read of OAMDATA or of a write-only register, or
\* of a write of PPUSTATUS
OddAccess ==
    /\ TickStep
    /\ \/ \E a \in WriteOnly \cup {8196} : LoadsFrom(M, a)
       \/ StoresTo(M, 8194)

OddAccessLaw ==
    /\ res' = "Ok"
    /\ ppu' = ppu
    /\ LoadsFrom(M, 8196) => cpu'.A = Get(ppu.poam, ppu.oam_address)

\* C33: every CPU access to the PPU registers returns: a read of $2004 gives
\* poam[OAMADDR] and leaves OAMADDR alone, a read of $2000, $2001, $2003,
\* $2005 or $2006 gives some byte, a write of $2002 is ignored, and none of
\* them aborts or changes any PPU state.
C33_TotalAccess == [][OddAccess => OddAccessLaw]_vars

\* bits lo..hi of the word t
Field(t, lo, hi) == (t \div Pow2(lo)) % Pow2(hi - lo + 1)

\* the step is the tick of a store to $2005
ScrollWrite == CpuStore(8197)

ScrollFirstLaw(d) ==
    /\ ppu'.vram_x = d % 8
    /\ Field(ppu'.vram_t, 0, 4) = d \div 8
    /\ Field(ppu'.vram_t, 5, 14) = Field(ppu.vram_t, 5, 14)
    /\ ppu'.vram_v = ppu.vram_v
    /\ ppu'.write_toggle

ScrollSecondLaw(d) ==
    /\ Field(ppu'.vram_t, 12, 14) = d % 8
    /\ Field(ppu'.vram_t, 5, 9) = d \div 8
    /\ Field(ppu'.vram_t, 0, 4) = Field(ppu.vram_t, 0, 4)
    /\ Field(ppu'.vram_t, 10, 11) = Field(ppu.vram_t, 10, 11)
    /\ ppu'.vram_x = ppu.vram_x
    /\ ppu'.vram_v = ppu.vram_v
    /\ ~ppu'.write_toggle

\* C34: with w = 0, writes d1 and d2 to $2005 set fine X = d1 & 7, coarse X
\* (t bits 0-4) = d1 >> 3, fine Y (t bits 12-14) = d2 & 7 and coarse Y
\* (t bits 5-9) = d2 >> 3, leave bits 10-11 of t and all of v as they were
\* and leave w = 0.
C34_Scroll ==
    [][ScrollWrite =>
          IF ppu.write_toggle THEN ScrollSecondLaw(StoredValue(M))
          ELSE ScrollFirstLaw(StoredValue(M))]_vars

\* the step is the tick of a store to $2006
AddrWrite == CpuStore(8198)

AddrFirstLaw(d) ==
    /\ ppu'.vram_t = (ppu.vram_t % 256) + ((d % 64) * 256)
    /\ ppu'.vram_v = ppu.vram_v

AddrSecondLaw(d) ==
    /\ ppu'.vram_t = (ppu.vram_t - (ppu.vram_t % 256)) + d
    /\ ppu'.vram_v = ppu'.vram_t

\* C35: the write toggle flips on every write to $2005 or $2006, is cleared
\* by every read of $2002 and is changed by nothing else; with w = 0 the first
\* write to $2006 puts (hi & $3F) into the high byte of t and leaves v alone,
\* the second puts lo into the low byte and copies t to v, so that
\* v = t = ((hi & $3F) << 8) | lo.
C35_Toggle ==
    [][/\ (ScrollWrite \/ AddrWrite) => ppu'.write_toggle = ~ppu.write_toggle
       /\ StatusRead => ~ppu'.write_toggle
       /\ ppu'.write_toggle # ppu.write_toggle => (ScrollWrite \/ AddrWrite \/ StatusRead)
       /\ AddrWrite => IF ppu.write_toggle THEN AddrSecondLaw(StoredValue(M))
                       ELSE AddrFirstLaw(StoredValue(M))]_vars

\* hi = $21 and lo = $55 have been written: v = t = $2155 and w = 0
C35_Witness ==
    /\ mem.prg_rom = Rom(ToggleCode(33, 85), RTI)
    /\ cpu.PC = 32801
    /\ ppu.vram_v = 8533 /\ ppu.vram_t = 8533 /\ ~ppu.write_toggle


(***************************************************************************)
(* Sprite evaluation, sprite fetches and sprite pixels.                    *)
(***************************************************************************)
\* the four bytes of sprite i of primary OAM
PoamSprite(i) == [b \in 0..3 |-> Get(ppu.poam, (4 * i) + b)]

\* a dot that advances the index of the next open slot of secondary OAM
SlotAdvance ==
    /\ DotStep
    /\ ppu'.soam_next_open_slot = ppu.soam_next_open_slot + 1

\* C36: in stage 1 of sprite evaluation the slot index advances only when
\* the sprite under examination is in range of the scanline and its four
\* bytes have been copied into the slot; a sprite out of range is skipped
\* without consuming a slot, so the in-range sprites fill slots 0, 1, ...
C36_SlotAdvance ==
    [][SlotAdvance =>
          /\ ppu.poam_sprite_index \in SpritesInRange(ppu.scanline)
          /\ \A b \in 0..3 :
                ppu'.soam[(4 * ppu.soam_next_open_slot) + b] = PoamSprite(ppu.poam_sprite_index)[b]]_vars


\* a dot of the overflow check (stage 3, secondary OAM full) that examines
\* a byte of a sprite before the last and finds it out of range
OverflowMiss ==
    /\ DotStep /\ res = "Ok" /\ res' = "Ok"
    /\ Rendering(M)
    /\ InRange(ppu.scanline, 0, 239) /\ InRange(ppu.tick, 65, 256) /\ ppu.tick % 2 = 1
    /\ ppu.sprite_evaluation_substage = 3
    /\ ppu.poam_sprite_index < 63
    /\ LET y == Get(ppu.poam, PoamIndex(M))
       IN ~(y <= ppu.scanline /\ ppu.scanline < y + 8)

\* C38: in stage 3 a byte poam[4n + m] that is not in range advances both n
\* and m, m wrapping from 3 to 0 without carry: the next byte examined is
\* poam[4(n + 1) + ((m + 1) mod 4)], and m is not reset to 0.
C38_DiagonalScan ==
    [][OverflowMiss =>
          /\ ppu'.poam_sprite_index = ppu.poam_sprite_index + 1
          /\ ppu'.poam_sprite_byte_index = (ppu.poam_sprite_byte_index + 1) % 4]_vars


\* the machine inside a dot, after the work of the scanline and before the
\* pixel is produced (ppu.rs:699)
AtPixel == ScanlineWork(M)

\* a dot 1..255 of a visible scanline, with background and sprites enabled,
\* on which sprite slot 0 and the background both produce a non-zero pixel
ZeroHitDot ==
    /\ DotStep /\ res = "Ok" /\ res' = "Ok"
    /\ Rendering(M)
    /\ InRange(AtPixel.ppu.scanline, 0, 239) /\ InRange(AtPixel.ppu.tick, 1, 255)
    /\ SpritePixel(AtPixel).sp_is_zero
    /\ BackgroundPixel(AtPixel).bg_pixel # 0

\* C37: a non-zero pixel of sprite slot 0 that coincides with a non-zero
\* background pixel on a dot 1..255 of a visible scanline, with background
\* and sprites enabled, sets bit 6 of PPUSTATUS on that dot.
C37_SpriteZeroHit == [][ZeroHitDot => Bit(ppu'.ppu_status, SPRITE_ZERO_HIT) = 1]_vars


\* a dot on which the sprite shifters are clocked (ppu.rs:392, 401)
SpriteClock ==
    /\ DotStep /\ res = "Ok" /\ res' = "Ok"
    /\ Bit(ppu.ppu_mask, SPRITES) = 1
    /\ InRange(ppu.scanline, 0, 239) /\ InRange(ppu.tick, 2, 256)

\* C39: on a clocked dot a sprite slot whose X counter is non-zero only
\* decrements the counter and leaves its two pattern shifters untouched; the
\* shifters shift only when the counter is already 0, so a sprite with X = k
\* presents its first pattern bit k dots later than one with X = 0.
C39_XCounter ==
    [][SpriteClock =>
          \A s \in 0..7 :
             IF ppu.sprite_x_position_counter[s] > 0
             THEN /\ ppu'.sprite_x_position_counter[s] = ppu.sprite_x_position_counter[s] - 1
                  /\ ppu'.sprite_pattern_shift_reg_hi[s] = ppu.sprite_pattern_shift_reg_hi[s]
                  /\ ppu'.sprite_pattern_shift_reg_lo[s] = ppu.sprite_pattern_shift_reg_lo[s]
             ELSE /\ ppu'.sprite_x_position_counter[s] = 0
                  /\ ppu'.sprite_pattern_shift_reg_hi[s] = Shl8(ppu.sprite_pattern_shift_reg_hi[s])
                  /\ ppu'.sprite_pattern_shift_reg_lo[s] = Shl8(ppu.sprite_pattern_shift_reg_lo[s])]_vars


\* the slot served by a dot of the sprite fetches (ppu.rs:614)
FetchSlot == ((ppu.tick - 1) \div 8) % 8

\* the sub-dot `sub` of a sprite fetch whose row offset is computed without
\* wrapping; the same dot of the sprite fetch changes no PPU memory
SpriteFetchDot(sub) ==
    /\ DotStep /\ res = "Ok" /\ res' = "Ok"
    /\ Rendering(M)
    /\ InRange(ppu.scanline, 0, 239) /\ InRange(ppu.tick, 257, 320)
    /\ (ppu.tick - 1) % 8 = sub
    /\ ppu.scanline >= ppu.sprite_render_oam_y_coord
    /\ ppu.scanline - ppu.sprite_render_oam_y_coord <= 7

\* the pattern byte at offset `plane` (0 low, 8 high) of the row fetched
PlaneByte(plane) ==
    SpriteFlip(M, ppu_read(M, SpritePatternAddr(M, SpriteFineY(M).v + plane)).v)

\* C40: bit 0 of a sprite pixel comes from the low plane, fetched at
\* sub-dot 4 from (sprite_table << 12) | (tile << 4) | fine_y, and bit 1 from
\* the high plane, fetched at sub-dot 6 from that address + 8: the low-plane
\* byte goes to the shifter that gives bit 0 (sprite_pattern_shift_reg_lo)
\* and the high-plane byte to the one that gives bit 1.
C40_PlaneOrder ==
    [][/\ SpriteFetchDot(4) => ppu'.sprite_pattern_shift_reg_lo[FetchSlot] = PlaneByte(0)
       /\ SpriteFetchDot(6) => ppu'.sprite_pattern_shift_reg_hi[FetchSlot] = PlaneByte(8)]_vars

====
